---- MODULE Spec2Model ----
(***************************************************************************)
(* A model of the ContextPilot VS Code extension (src/src/extension.ts):   *)
(* the version gate, the query commands and their output parsing, the      *)
(* full and incremental index commands, the diff pipeline, and the retry   *)
(* loop of getCopilotResponse.                                             *)
(*                                                                         *)
(* Text is modelled as a sequence of one-character strings, so that the    *)
(* regular expressions and the split/trim calls of the source are          *)
(* computed character by character.                                        *)
(***************************************************************************)
EXTENDS Integers, Sequences, FiniteSets, TLC

VARIABLES
    cachedVersionCheck, \* "null", "true" or "false" (extension.ts:8)
    lastIndexTime,      \* <<>> for null, <<t>> for epoch second t (extension.ts:12)
    now,                \* the wall clock, in half seconds: Date.now() = 500 * now
    install,            \* what `<candidate> --version` does, per candidate location
    proc,               \* the command in flight, per trigger source
    ghost,              \* history of the version gate's calls
    call                \* one evaluation of a pure function: its arguments and result

vars == <<cachedVersionCheck, lastIndexTime, now, install, proc, ghost, call>>

ext == <<cachedVersionCheck, lastIndexTime, now, install, proc, ghost>>

(***************************************************************************)
(* The state after activation                                              *)
(***************************************************************************)
\* The candidate locations of the binary (extension.ts:35-41).
possiblePaths_PathLast ==
    << "~/.local/bin/contextpilot", "~/.cargo/bin/contextpilot",
       "/usr/local/bin/contextpilot", "/usr/bin/contextpilot", "contextpilot" >>

possiblePaths ==
    << "contextpilot", "~/.local/bin/contextpilot", "~/.cargo/bin/contextpilot",
       "/usr/local/bin/contextpilot", "/usr/bin/contextpilot" >>

\* A candidate location that holds no binary: exec reports an error.
Absent == [error |-> TRUE, stdout |-> <<>>]

NotInstalled == [k \in 1..Len(possiblePaths) |-> Absent]

\* A command runs for the user (palette, key binding) or for an automatic
\* trigger (the git watcher, the activation timer); one of each can be in
\* flight at a time in the model.
Procs == {"user", "auto"}

IdleProc ==
    [kind |-> "none", origin |-> "none", pc |-> "idle", idx |-> 0,
     gate |-> "none", why |-> "none", probes |-> 0,
     afterTrue |-> FALSE, afterFalse |-> FALSE,
     seen |-> <<>>, cmds |-> <<>>, outs |-> <<>>, data |-> <<>>, acc |-> <<>>,
     progress |-> <<>>, outcome |-> "none", items |-> <<>>]

NoCall == [fn |-> "none", args |-> <<>>, done |-> TRUE, result |-> <<>>]

NoGhost == [completedTrue |-> FALSE, completedFalse |-> FALSE, overlap |-> FALSE]

InitExt ==
    /\ cachedVersionCheck = "null"
    /\ lastIndexTime = <<>>
    /\ now = 2
    /\ proc = [p \in Procs |-> IdleProc]
    /\ ghost = NoGhost

\* The extension's state while a pure function is evaluated on its own.
HarnessExt ==
    /\ InitExt
    /\ install = NotInstalled

(***************************************************************************)
(* Text helpers                                                            *)
(***************************************************************************)
Digits == {"0", "1", "2", "3", "4", "5", "6", "7", "8", "9"}

IsDigit(c) == c \in Digits

DigitVal(c) ==
    CASE c = "0" -> 0 [] c = "1" -> 1 [] c = "2" -> 2 [] c = "3" -> 3
      [] c = "4" -> 4 [] c = "5" -> 5 [] c = "6" -> 6 [] c = "7" -> 7
      [] c = "8" -> 8 [] c = "9" -> 9

Min(S) == CHOOSE x \in S : \A y \in S : x <= y

\* parseInt on a run of decimal digits (extension.ts:18); the model's strings are
\* far shorter than the 16 digits at which a double stops being exact.
RECURSIVE parseInt(_)
parseInt(ds) ==
    IF ds = <<>> THEN 0
    ELSE 10 * parseInt(SubSeq(ds, 1, Len(ds) - 1)) + DigitVal(ds[Len(ds)])

\* The position after the longest run of digits that starts at i (\d+, greedy).
RECURSIVE DigitRunEnd(_, _)
DigitRunEnd(s, i) ==
    IF i <= Len(s) /\ IsDigit(s[i]) THEN DigitRunEnd(s, i + 1) ELSE i

\* /(\d+)\.(\d+)\.(\d+)/ tried at position i: the three groups and the position
\* after the match, or <<>>.  A group shorter than its digit run is followed by a
\* digit, never by the dot, so backtracking finds nothing the greedy run misses.
VersionMatchAt(s, i) ==
    LET e1 == DigitRunEnd(s, i)
        e2 == DigitRunEnd(s, e1 + 1)
        e3 == DigitRunEnd(s, e2 + 1)
    IN  IF /\ e1 > i /\ e1 <= Len(s) /\ s[e1] = "."
           /\ e2 > e1 + 1 /\ e2 <= Len(s) /\ s[e2] = "."
           /\ e3 > e2 + 1
        THEN <<SubSeq(s, i, e1 - 1), SubSeq(s, e1 + 1, e2 - 1),
               SubSeq(s, e2 + 1, e3 - 1), <<e3>> >>
        ELSE <<>>

\* String.prototype.match without the g flag: the leftmost match.
VersionMatch(s) ==
    LET starts == {i \in 1..Len(s) : VersionMatchAt(s, i) # <<>>}
    IN  IF starts = {} THEN <<>> ELSE VersionMatchAt(s, Min(starts))

parseVersion(versionStr) ==
    LET match == VersionMatch(versionStr)
    IN  IF match = <<>> THEN <<0, 0, 0>>
        ELSE <<parseInt(match[1]), parseInt(match[2]), parseInt(match[3])>>

isVersionCompatible_PatchStrict(installed, required) ==
    LET i == parseVersion(installed)
        r == parseVersion(required)
    IN  IF i[1] # r[1] THEN i[1] > r[1]
        ELSE IF i[2] # r[2] THEN i[2] > r[2]
        ELSE i[3] > r[3]

isVersionCompatible(installed, required) ==
    LET i == parseVersion(installed)
        r == parseVersion(required)
    IN  IF i[1] # r[1] THEN i[1] > r[1]
        ELSE IF i[2] # r[2] THEN i[2] > r[2]
        ELSE i[3] >= r[3]

\* "0.9.0"
MIN_CONTEXTPILOT_VERSION == <<"0", ".", "9", ".", "0">>

(***************************************************************************)
(* SpecVersion: isVersionCompatible applied to bounded strings             *)
(***************************************************************************)
MaxVerLen == 6

VersionAlphabet == {"0", "9", ".", "v"}

RECURSIVE StringsUpTo(_, _)
StringsUpTo(alphabet, n) ==
    IF n = 0 THEN {<<>>}
    ELSE LET shorter == StringsUpTo(alphabet, n - 1)
         IN  shorter \cup {Append(s, c) : s \in shorter, c \in alphabet}

InstalledStrings == StringsUpTo(VersionAlphabet, MaxVerLen)

RequiredStrings ==
    { MIN_CONTEXTPILOT_VERSION,
      <<"9", ".", "0", ".", "0">>,
      <<"0", ".", "9", "0", ".", "9">>,
      <<"v", "0", ".", "0", ".", "9">>,
      <<"0", ".", "9">>,
      <<>> }

InitVersion ==
    /\ HarnessExt
    /\ call \in [fn : {"isVersionCompatible"},
                 args : InstalledStrings \X RequiredStrings,
                 done : {FALSE}, result : {FALSE}]

CompareVersions ==
    /\ UNCHANGED ext
    /\ call.fn = "isVersionCompatible"
    /\ ~call.done
    /\ call' = [call EXCEPT !.done = TRUE,
                   !.result = isVersionCompatible(call.args[1], call.args[2])]

NextVersion == CompareVersions

SpecVersion == InitVersion /\ [][NextVersion]_vars

(***************************************************************************)
(* Occurrence-list parsing (runCommand, extension.ts:245-260)              *)
(***************************************************************************)
\* What String.prototype.trim removes, among the characters of the model.
IsSpace(c) == c \in {" ", "\t", "\r", "\n"}

RECURSIVE TrimStart(_)
TrimStart(s) ==
    IF s # <<>> /\ IsSpace(s[1]) THEN TrimStart(Tail(s)) ELSE s

RECURSIVE TrimEnd(_)
TrimEnd(s) ==
    IF s # <<>> /\ IsSpace(s[Len(s)]) THEN TrimEnd(SubSeq(s, 1, Len(s) - 1)) ELSE s

Trim(s) == TrimEnd(TrimStart(s))

HasPrefixAt(s, i, lit) ==
    /\ i >= 1
    /\ i + Len(lit) - 1 <= Len(s)
    /\ SubSeq(s, i, i + Len(lit) - 1) = lit

\* String.prototype.indexOf, 1-based; 0 when lit does not occur.
IndexOf(s, lit) ==
    LET hits == {i \in 1..Len(s) : HasPrefixAt(s, i, lit)}
    IN  IF hits = {} THEN 0 ELSE Min(hits)

\* String.prototype.split on a non-empty separator.
RECURSIVE Split(_, _)
Split(s, sep) ==
    LET at == IndexOf(s, sep)
    IN  IF at = 0 THEN <<s>>
        ELSE <<SubSeq(s, 1, at - 1)>> \o Split(SubSeq(s, at + Len(sep), Len(s)), sep)

RECURSIVE SelectNonEmpty(_)
SelectNonEmpty(ls) ==
    IF ls = <<>> THEN <<>>
    ELSE IF Len(Head(ls)) > 0 THEN <<Head(ls)>> \o SelectNonEmpty(Tail(ls))
    ELSE SelectNonEmpty(Tail(ls))

SEPARATOR == <<" ", "-", " ">>

OCCURRENCES == <<" ", "o", "c", "c", "u", "r", "r", "e", "n", "c", "e", "s">>

\* /- (\d+) occurrences/ tried at position i: the digits of the group, or <<>>.
OccurrencesMatchAt(line, i) ==
    LET e == DigitRunEnd(line, i + 2)
    IN  IF /\ HasPrefixAt(line, i, <<"-", " ">>)
           /\ e > i + 2
           /\ HasPrefixAt(line, e, OCCURRENCES)
        THEN SubSeq(line, i + 2, e - 1)
        ELSE <<>>

\* line.match(/- (\d+) occurrences/): the group of the leftmost match, or <<>>.
OccurrencesMatch(line) ==
    LET starts == {i \in 1..Len(line) : OccurrencesMatchAt(line, i) # <<>>}
    IN  IF starts = {} THEN <<>> ELSE OccurrencesMatchAt(line, Min(starts))

\* The callback of outputFilesArray.map (extension.ts:252-260).
OccurrenceItem_WholeLineLabel(line) ==
    LET occurrencesMatch == OccurrencesMatch(line)
        occurrences == IF occurrencesMatch # <<>> THEN occurrencesMatch ELSE <<"0">>
    IN  [label |-> line, description |-> occurrences \o OCCURRENCES]

OccurrenceItem(line) ==
    LET filePath == Trim(Split(line, SEPARATOR)[1])
        occurrencesMatch == OccurrencesMatch(line)
        occurrences == IF occurrencesMatch # <<>> THEN occurrencesMatch ELSE <<"0">>
    IN  [label |-> filePath, description |-> occurrences \o OCCURRENCES]

\* stdout.split("\n").map(trim).filter(non-empty) (extension.ts:245-248).
OutputFilesArray(stdout) ==
    LET lines == Split(stdout, <<"\n">>)
    IN  SelectNonEmpty([k \in 1..Len(lines) |-> Trim(lines[k])])

ParseOccurrences_DropUnmatched(stdout) ==
    LET outputFilesArray == OutputFilesArray(stdout)
        matched == SelectSeq(outputFilesArray, LAMBDA l : OccurrencesMatch(l) # <<>>)
    IN  [k \in 1..Len(matched) |-> OccurrenceItem(matched[k])]

ParseOccurrences(stdout) ==
    LET outputFilesArray == OutputFilesArray(stdout)
    IN  [k \in 1..Len(outputFilesArray) |-> OccurrenceItem(outputFilesArray[k])]

(***************************************************************************)
(* SpecParse: ParseOccurrences applied to bounded outputs                  *)
(***************************************************************************)
MaxLines == 3

\* Raw output lines, each with the item the claim expects of it (<<>>: no item).
LineSamples ==
    << \* "a.rs - 12 occurrences"
       [raw |-> <<"a", ".", "r", "s", " ", "-", " ", "1", "2", " ", "o", "c", "c",
                  "u", "r", "r", "e", "n", "c", "e", "s">>,
        item |-> <<<<"a", ".", "r", "s">>, <<"1", "2">>>>],
       \* "weird line"
       [raw |-> <<"w", "e", "i", "r", "d", " ", "l", "i", "n", "e">>,
        item |-> <<<<"w", "e", "i", "r", "d", " ", "l", "i", "n", "e">>, <<"0">>>>],
       \* the empty line
       [raw |-> <<>>, item |-> <<>>],
       \* a line of blanks
       [raw |-> <<" ", "\t">>, item |-> <<>>],
       \* " b - 3 occurrences\r"
       [raw |-> <<" ", "b", " ", "-", " ", "3", " ", "o", "c", "c", "u", "r", "r",
                  "e", "n", "c", "e", "s", "\r">>,
        item |-> <<<<"b">>, <<"3">>>>],
       \* "x - y - 7 occurrences"
       [raw |-> <<"x", " ", "-", " ", "y", " ", "-", " ", "7", " ", "o", "c", "c",
                  "u", "r", "r", "e", "n", "c", "e", "s">>,
        item |-> <<<<"x">>, <<"7">>>>],
       \* "c - d"
       [raw |-> <<"c", " ", "-", " ", "d">>,
        item |-> <<<<"c">>, <<"0">>>>],
       \* "- 5 occurrences"
       [raw |-> <<"-", " ", "5", " ", "o", "c", "c", "u", "r", "r", "e", "n", "c",
                  "e", "s">>,
        item |-> <<<<"-", " ", "5", " ", "o", "c", "c", "u", "r", "r", "e", "n", "c",
                    "e", "s">>, <<"5">>>>] >>

RECURSIVE SeqsUpTo(_, _)
SeqsUpTo(S, n) ==
    IF n = 0 THEN {<<>>}
    ELSE LET shorter == SeqsUpTo(S, n - 1)
         IN  shorter \cup {Append(s, x) : s \in shorter, x \in S}

RECURSIVE JoinLines(_)
JoinLines(ls) ==
    IF ls = <<>> THEN <<>>
    ELSE IF Len(ls) = 1 THEN ls[1]
    ELSE ls[1] \o <<"\n">> \o JoinLines(Tail(ls))

\* The output of the tool for a plan of lines, with or without a final newline.
RenderStdout(plan, finalNewline) ==
    JoinLines([k \in 1..Len(plan) |-> LineSamples[plan[k]].raw])
        \o (IF finalNewline THEN <<"\n">> ELSE <<>>)

InitParse ==
    /\ HarnessExt
    /\ \E plan \in SeqsUpTo(1..Len(LineSamples), MaxLines), nl \in BOOLEAN :
          call = [fn |-> "ParseOccurrences",
                  args |-> <<plan, RenderStdout(plan, nl)>>,
                  done |-> FALSE, result |-> <<>>]

ParseOutput ==
    /\ UNCHANGED ext
    /\ call.fn = "ParseOccurrences"
    /\ ~call.done
    /\ call' = [call EXCEPT !.done = TRUE, !.result = ParseOccurrences(call.args[2])]

NextParse == ParseOutput

SpecParse == InitParse /\ [][NextParse]_vars

(***************************************************************************)
(* Commit descriptions (runCommand in desc mode, extension.ts:202-223)     *)
(***************************************************************************)
D2021 == <<"2", "0", "2", "1", "-", "0", "1", "-", "0", "1">>

D2021Z == <<"2", "0", "2", "1", "-", "0", "1", "-", "0", "1", "T", "0", "0", ":", "0", "0", "Z">>

D2022 == <<"2", "0", "2", "2", "-", "0", "2", "-", "0", "2">>

D2023 == <<"2", "0", "2", "3", "-", "0", "5", "-", "0", "5">>

DInvalid == <<"n", "/", "a">>

\* new Date(date).getTime() on the date strings of the model: <<t>> with t the
\* instant, counted in years after 2020, or <<>> for NaN (an Invalid Date).  Two
\* of the strings name the same instant.
GetTime(date) ==
    CASE date = D2021 -> <<1>>
      [] date = D2021Z -> <<1>>
      [] date = D2022 -> <<2>>
      [] date = D2023 -> <<3>>
      [] OTHER -> <<>>

\* The comparator of extension.ts:213 as Array.prototype.sort calls it: a NaN
\* result counts as +0.
DateCompare_Ascending(a, b) ==
    LET ta == GetTime(a[4])
        tb == GetTime(b[4])
    IN  IF ta = <<>> \/ tb = <<>> THEN 0 ELSE ta[1] - tb[1]

DateCompare(a, b) ==
    LET ta == GetTime(a[4])
        tb == GetTime(b[4])
    IN  IF ta = <<>> \/ tb = <<>> THEN 0 ELSE tb[1] - ta[1]

Reverse(s) == [k \in 1..Len(s) |-> s[Len(s) + 1 - k]]

\* Array.prototype.sort as the extension host's engine (V8) runs it on an array
\* shorter than 64: the leading run is counted and, when strictly descending
\* under the comparator, reversed; the other elements are placed by binary
\* insertion.
RECURSIVE RunEnd(_, _, _)
RunEnd(arr, idx, isDescending) ==
    IF idx > Len(arr) THEN idx - 1
    ELSE LET order == DateCompare(arr[idx], arr[idx - 1])
         IN  IF (isDescending /\ order >= 0) \/ (~isDescending /\ order < 0)
             THEN idx - 1
             ELSE RunEnd(arr, idx + 1, isDescending)

\* The insertion point of pivot among arr[left+1 .. right] (0-based bounds).
RECURSIVE BinarySearch(_, _, _, _)
BinarySearch(arr, pivot, left, right) ==
    IF left >= right THEN left
    ELSE LET mid == left + ((right - left) \div 2)
             order == DateCompare(pivot, arr[mid + 1])
         IN  IF order < 0 THEN BinarySearch(arr, pivot, left, mid)
             ELSE BinarySearch(arr, pivot, mid + 1, right)

\* arr[1..start] is sorted; the elements from start+1 on are inserted in turn.
RECURSIVE BinaryInsertionSort(_, _)
BinaryInsertionSort(arr, start) ==
    IF start >= Len(arr) THEN arr
    ELSE LET pivot == arr[start + 1]
             left == BinarySearch(arr, pivot, 0, start)
         IN  BinaryInsertionSort(
                 SubSeq(arr, 1, left) \o <<pivot>> \o SubSeq(arr, left + 1, start)
                     \o SubSeq(arr, start + 2, Len(arr)),
                 start + 1)

SortByDate(parsed) ==
    IF Len(parsed) < 2 THEN parsed
    ELSE LET isDescending == DateCompare(parsed[2], parsed[1]) < 0
             runLength == RunEnd(parsed, 3, isDescending)
             run == IF isDescending
                    THEN Reverse(SubSeq(parsed, 1, runLength))
                             \o SubSeq(parsed, runLength + 1, Len(parsed))
                    ELSE parsed
         IN  BinaryInsertionSort(run, runLength)

DescriptionSliceLen == 80

\* description.slice(0, 80).replace(/\s+/g, " ")
RECURSIVE CollapseSpaces(_)
CollapseSpaces(s) ==
    IF s = <<>> THEN <<>>
    ELSE IF IsSpace(s[1])
         THEN <<" ">> \o CollapseSpaces(TrimStart(s))
         ELSE <<s[1]>> \o CollapseSpaces(Tail(s))

DescItem(t) ==
    [label |-> t[1],
     detail |-> t[3] \o <<" ", "*", " ">> \o t[4],
     description |-> CollapseSpaces(
         SubSeq(t[2], 1, IF Len(t[2]) < DescriptionSliceLen THEN Len(t[2])
                         ELSE DescriptionSliceLen)),
     fullDescription |-> t[2],
     author |-> t[3],
     date |-> t[4],
     commitUrl |-> t[5]]

\* The quick-pick items of a parsed desc output (extension.ts:213-223).
DescItems(parsed) ==
    LET sorted == SortByDate(parsed)
    IN  [k \in 1..Len(sorted) |-> DescItem(sorted[k])]

(***************************************************************************)
(* SpecSort: DescItems applied to bounded commit lists                     *)
(***************************************************************************)
MaxCommits == 4

DateSamples == {D2021, D2021Z, D2022, D2023, DInvalid}

\* The k-th tuple of a parsed output: [title, description, author, date, url].
CommitTuple(k, date) ==
    << <<"t", (<<"1", "2", "3", "4", "5", "6">>)[k]>>,
       <<"f", "i", "x", " ", " ", "a", "\n", "b", "u", "g">>,
       <<"a", "n", "n">>,
       date,
       <<"u", "/", (<<"1", "2", "3", "4", "5", "6">>)[k]>> >>

CommitLists ==
    {[k \in 1..Len(ds) |-> CommitTuple(k, ds[k])] : ds \in SeqsUpTo(DateSamples, MaxCommits)}

InitSort ==
    /\ HarnessExt
    /\ call \in [fn : {"DescItems"}, args : CommitLists, done : {FALSE}, result : {<<>>}]

SortCommits ==
    /\ UNCHANGED ext
    /\ call.fn = "DescItems"
    /\ ~call.done
    /\ call' = [call EXCEPT !.done = TRUE, !.result = DescItems(call.args)]

NextSort == SortCommits

SpecSort == InitSort /\ [][NextSort]_vars

(***************************************************************************)
(* The version gate (checkContextPilotVersion, extension.ts:29-99)         *)
(***************************************************************************)
CONTEXTPILOT == <<"c", "o", "n", "t", "e", "x", "t", "p", "i", "l", "o", "t">>

RECURSIVE SpaceRunEnd(_, _)
SpaceRunEnd(s, i) ==
    IF i <= Len(s) /\ IsSpace(s[i]) THEN SpaceRunEnd(s, i + 1) ELSE i

\* /contextpilot\s+(\d+\.\d+\.\d+)/ tried at position i: the group, or <<>>.
AnnouncementMatchAt(s, i) ==
    LET w == i + Len(CONTEXTPILOT)
        e == SpaceRunEnd(s, w)
        m == VersionMatchAt(s, e)
    IN  IF HasPrefixAt(s, i, CONTEXTPILOT) /\ e > w /\ m # <<>>
        THEN SubSeq(s, e, m[4][1] - 1)
        ELSE <<>>

AnnouncementMatch(s) ==
    LET starts == {i \in 1..Len(s) : AnnouncementMatchAt(s, i) # <<>>}
    IN  IF starts = {} THEN <<>> ELSE AnnouncementMatchAt(s, Min(starts))

\* The callback of exec(`${path} --version`) (extension.ts:66-93): "next" to try
\* the next candidate, or the outcome that ends the scan.
ProbeVerdict_SkipBadFormat(error, stdout) ==
    IF error \/ stdout = <<>> THEN "next"
    ELSE LET match == AnnouncementMatch(Trim(stdout))
         IN  IF match = <<>> THEN "next"
             ELSE IF ~isVersionCompatible(match, MIN_CONTEXTPILOT_VERSION) THEN "tooOld"
             ELSE "ok"

ProbeVerdict_SkipTooOld(error, stdout) ==
    IF error \/ stdout = <<>> THEN "next"
    ELSE LET match == AnnouncementMatch(Trim(stdout))
         IN  IF match = <<>> THEN "badFormat"
             ELSE IF ~isVersionCompatible(match, MIN_CONTEXTPILOT_VERSION) THEN "next"
             ELSE "ok"

ProbeVerdict(error, stdout) ==
    IF error \/ stdout = <<>> THEN "next"
    ELSE LET match == AnnouncementMatch(Trim(stdout))
         IN  IF match = <<>> THEN "badFormat"
             ELSE IF ~isVersionCompatible(match, MIN_CONTEXTPILOT_VERSION) THEN "tooOld"
             ELSE "ok"

Silent == [error |-> FALSE, stdout |-> <<>>]

Prints(text) == [error |-> FALSE, stdout |-> text]

V090 == CONTEXTPILOT \o <<" ", "0", ".", "9", ".", "0", "\n">>

V089 == CONTEXTPILOT \o <<" ", "0", ".", "8", ".", "9", "\n">>

V1100 == CONTEXTPILOT \o <<" ", " ", "1", ".", "1", "0", ".", "0", "-", "r", "c", "\n">>

Usage == <<"u", "s", "a", "g", "e", ":", " ", "c", "p", " ", "1", ".", "0", ".", "0", "\n">>

\* The installations of the model: nothing installed; a compatible binary on the
\* PATH; an old binary before a compatible one; a silent binary before a
\* compatible one; a binary with another announcement before a compatible one.
Installations ==
    { NotInstalled,
      [k \in 1..Len(possiblePaths) |-> IF k = 1 THEN Prints(V090) ELSE Absent],
      [k \in 1..Len(possiblePaths) |->
          IF k = 2 THEN Prints(V089) ELSE IF k = 4 THEN Prints(V1100) ELSE Absent],
      [k \in 1..Len(possiblePaths) |->
          IF k = 1 THEN Silent ELSE IF k = 3 THEN Prints(V090) ELSE Absent],
      [k \in 1..Len(possiblePaths) |->
          IF k = 1 THEN Prints(Usage) ELSE IF k = 2 THEN Prints(V090) ELSE Absent] }

(***************************************************************************)
(* Commands in flight                                                      *)
(***************************************************************************)
Fresh(kind, origin) ==
    [kind |-> kind, origin |-> origin, pc |-> "start", idx |-> 0,
     gate |-> "none", why |-> "none", probes |-> 0,
     afterTrue |-> ghost.completedTrue,
     afterFalse |-> ghost.completedFalse, seen |-> <<>>, cmds |-> <<>>,
     outs |-> <<>>,
     data |-> <<>>, acc |-> <<>>, progress |-> <<>>, outcome |-> "none",
     items |-> <<>>]

Free_Serialized(p) ==
    /\ proc[p].pc \in {"idle", "done"}
    /\ \A q \in Procs \ {p} : proc[q].kind \in {"index", "reindex"} => proc[q].pc \in {"idle", "done"}

Free(p) == proc[p].pc \in {"idle", "done"}

Done(rec, outcome) == [rec EXCEPT !.pc = "done", !.outcome = outcome]

StartExec_Again(rec, pc, cmd) == [rec EXCEPT !.pc = pc, !.cmds = @ \o <<cmd, cmd>>]

StartExec(rec, pc, cmd) == [rec EXCEPT !.pc = pc, !.cmds = Append(@, cmd)]

\* The callback of an external command is entered with what the command gave.
Called(rec, out) == [rec EXCEPT !.outs = Append(@, out)]

\* runCommand after the gate, up to the exec call (extension.ts:155-189).
internalCommandType(commandType) ==
    IF commandType = "files" THEN "query" ELSE commandType

runCommand_Begin(rec, env) ==
    IF env = "noEditor" THEN Done(rec, "noEditor")
    ELSE IF env = "noWorkspace" THEN Done(rec, "noWorkspace")
    ELSE StartExec(rec, "exec", internalCommandType(rec.kind))

\* The falsy test of `!lastIndexTime`: null, or the number 0.
NoLastIndexTime == lastIndexTime = <<>> \/ lastIndexTime = <<0>>

\* reindexChangedFiles after the gate, into getChangedFilesSinceLastIndex
\* (extension.ts:308-320, 282-289).
reindex_Begin_AlwaysQueries(rec, env) ==
    IF env = "noWorkspace" THEN Done(rec, "noWorkspace")
    ELSE StartExec(rec, "changes", "git diff")

reindex_Begin(rec, env) ==
    IF env = "noWorkspace" THEN Done(rec, "noWorkspace")
    ELSE IF NoLastIndexTime THEN Done(rec, "noChanges")
    ELSE StartExec(rec, "changes", "git diff")

\* indexWorkspace after the gate, up to the exec call (extension.ts:381-403).
index_Begin(rec, env) ==
    IF env = "noWorkspace" THEN Done(rec, "noWorkspace")
    ELSE StartExec(rec, "index", "index")

\* indexSubdirectories after the gate, up to the quick pick (extension.ts:451-469).
subdirs_Begin(rec, env) ==
    IF env = "noWorkspace" THEN Done(rec, "noWorkspace")
    ELSE IF env = "noSubdirs" THEN Done(rec, "noSubdirs")
    ELSE [rec EXCEPT !.pc = "pick"]

\* generateDiffsForCursorChat after the gate, up to the describe call
\* (extension.ts:601-653).
diffs_Begin(rec, env) ==
    IF env = "noEditor" THEN Done(rec, "noEditor")
    ELSE IF env = "untitled" THEN Done(rec, "untitled")
    ELSE IF env = "noWorkspace" THEN Done(rec, "noWorkspace")
    ELSE StartExec([rec EXCEPT !.progress = <<0>>], "describe", "desc")

Begin(rec, env) ==
    CASE rec.kind \in {"files", "authors", "desc"} -> runCommand_Begin(rec, env)
      [] rec.kind = "reindex" -> reindex_Begin(rec, env)
      [] rec.kind = "index" -> index_Begin(rec, env)
      [] rec.kind = "subdirs" -> subdirs_Begin(rec, env)
      [] rec.kind = "diffs" -> diffs_Begin(rec, env)

\* `if (!(await checkContextPilotVersion())) return;` and the command's code up
\* to its first asynchronous call (extension.ts:153, 306, 379, 449, 599).
AfterGate_IgnoreGate(rec, env) ==
    Begin(rec, env)

AfterGate(rec, env) ==
    IF rec.gate # "true" THEN Done(rec, "gateFailed")
    ELSE Begin(rec, env)

\* checkContextPilotVersion up to its first exec call (extension.ts:29-47, 97):
\* the cached answer, or the first probe.
EnterGate_NoCache(rec) ==
    [rec EXCEPT !.gate = "pending", !.pc = "probe", !.idx = 1, !.probes = 1]

EnterGate(rec) ==
    IF cachedVersionCheck # "null"
    THEN [rec EXCEPT !.gate = cachedVersionCheck, !.why = "cached"]
    ELSE [rec EXCEPT !.gate = "pending", !.pc = "probe", !.idx = 1, !.probes = 1]

\* What of the editor a command of this kind looks at.
EnvsOf(kind) ==
    CASE kind \in {"files", "authors", "desc"} -> {"ok", "noEditor", "noWorkspace"}
      [] kind \in {"reindex", "index"} -> {"ok", "noWorkspace"}
      [] kind = "subdirs" -> {"ok", "noWorkspace", "noSubdirs"}
      [] kind = "diffs" -> {"ok", "noEditor", "untitled", "noWorkspace"}

\* A command is invoked: the gate is entered; with a cached answer the command
\* goes on, or returns, in the same turn of the event loop.
Invoke(p, kind, origin) ==
    LET rec == EnterGate(Fresh(kind, origin))
    IN  /\ Free(p)
        /\ IF rec.gate = "pending"
           THEN proc' = [proc EXCEPT ![p] = rec]
           ELSE \E env \in EnvsOf(kind) : proc' = [proc EXCEPT ![p] = AfterGate(rec, env)]
        /\ ghost' = [ghost EXCEPT !.overlap =
                        @ \/ (rec.gate = "pending"
                              /\ \E q \in Procs \ {p} : proc[q].pc = "probe")]
        /\ UNCHANGED <<cachedVersionCheck, lastIndexTime, now, install, call>>

RunCommandKinds == {"files", "authors", "desc"}

\* The registered query commands (extension.ts:892-897).
runCommand(p) ==
    \E kind \in RunCommandKinds : Invoke(p, kind, "command")

\* The callback of the probe of a candidate is entered with what it gave.
Probed(rec, out) ==
    [rec EXCEPT !.seen = Append(@, [path |-> possiblePaths[rec.idx],
                                    error |-> out.error, stdout |-> out.stdout])]

\* The callback of a `--version` probe (extension.ts:66-93), with tryNextPath of
\* the next index when the candidate gave nothing (extension.ts:48-63).
tryNextPath(p) ==
    LET out == install[proc[p].idx]
        rec == Probed(proc[p], out)
        verdict == ProbeVerdict(out.error, out.stdout)
    IN  /\ proc[p].pc = "probe"
        /\ IF verdict = "next" /\ rec.idx + 1 <= Len(possiblePaths)
           THEN /\ proc' = [proc EXCEPT ![p] =
                               [rec EXCEPT !.idx = @ + 1, !.probes = @ + 1]]
                /\ UNCHANGED <<cachedVersionCheck, ghost>>
           ELSE IF verdict = "ok"
           THEN /\ cachedVersionCheck' = "true"
                /\ \E env \in EnvsOf(rec.kind) :
                      proc' = [proc EXCEPT ![p] =
                          AfterGate([rec EXCEPT !.gate = "true", !.why = "ok"], env)]
                /\ ghost' = [ghost EXCEPT !.completedTrue = TRUE]
           ELSE /\ cachedVersionCheck' = "false"
                /\ proc' = [proc EXCEPT ![p] =
                       AfterGate([rec EXCEPT !.gate = "false",
                                      !.why = IF verdict = "next" THEN "notInstalled"
                                              ELSE verdict], "ok")]
                /\ ghost' = [ghost EXCEPT !.completedFalse = TRUE]
        /\ UNCHANGED <<lastIndexTime, now, install, call>>

\* The user installs, removes or replaces a binary.
ChangeInstallation ==
    /\ install' \in Installations \ {install}
    /\ UNCHANGED <<cachedVersionCheck, lastIndexTime, now, proc, ghost, call>>

(***************************************************************************)
(* runCommand's exec callback (extension.ts:189-279)                       *)
(***************************************************************************)
\* What an external command gave: the exec error flag, stdout, stderr, and for
\* a desc output what JSON.parse makes of stdout.trim(): <<>> when it throws,
\* <<v>> for the value v.
Output(error, stdout, stderr, json) ==
    [error |-> error, stdout |-> stdout, stderr |-> stderr, json |-> json]

ErrText == <<"e", "r", "r">>

\* JSON.parse(stdout.trim()) in its try block (extension.ts:204-211, 672-683):
\* <<>> when it throws, <<v>> for the value v.
Parsed_Lenient(out) == IF out.json = <<>> THEN << <<>> >> ELSE out.json

Parsed(out) == out.json

\* A JSON value that is not an array, kept as a tagged value; an array is the
\* sequence of its 5-tuples.
JsonNull == << <<"null">> >>

JsonNumber == << <<"number">> >>

JsonString == << <<"string">> >>

JsonObject == << <<"object">> >>

IsArray(parsed) == parsed \notin {JsonNull, JsonNumber, JsonString, JsonObject}

\* `parsed.length` inside the try block of runCommand (extension.ts:206):
\* a TypeError for null, undefined or a number for any other value.
LengthThrows(parsed) == parsed = JsonNull

\* `parsed.length` and `parsed.forEach(([hash, title, , author, date]) => ...)`
\* inside the try block of the describe callback (extension.ts:673-676).
ForEachThrows(parsed) == ~IsArray(parsed)

\* `parsed.sort(...)` after the try block of runCommand (extension.ts:213): a
\* TypeError when the value has no sort method.
SortThrows(parsed) == ~IsArray(parsed)

\* Outputs that are JSON and not an array: null, 5, "s", {}.
NotArrayOutputs ==
    { Output(FALSE, <<"n", "u", "l", "l">>, <<>>, <<JsonNull>>),
      Output(FALSE, <<"5">>, <<>>, <<JsonNumber>>),
      Output(FALSE, <<"\"", "s", "\"">>, <<>>, <<JsonString>>),
      Output(FALSE, <<"{", "}">>, <<>>, <<JsonObject>>) }

TwoLines ==
    <<"a", ".", "r", "s", " ", "-", " ", "1", "2", " ", "o", "c", "c", "u", "r",
      "r", "e", "n", "c", "e", "s", "\n", "w", "e", "i", "r", "d", "\n">>

QueryOutputs ==
    { Output(TRUE, <<>>, ErrText, <<>>),
      Output(FALSE, <<>>, ErrText, <<>>),
      Output(FALSE, <<>>, <<>>, <<>>),
      Output(FALSE, TwoLines, ErrText, <<>>) }

DescOutputs ==
    { Output(TRUE, <<>>, ErrText, <<>>),
      Output(FALSE, <<>>, ErrText, <<>>),
      Output(FALSE, <<"[", "[">>, <<>>, <<>>),
      Output(FALSE, <<"[", "]">>, <<>>, << <<>> >>),
      Output(FALSE, <<"[", "[", "t", "1", "]", "[", "t", "2", "]", "]">>, <<>>,
             << <<CommitTuple(1, D2021), CommitTuple(2, D2023)>> >>) }
        \cup NotArrayOutputs

ExecOutputs(kind) == IF kind = "desc" THEN DescOutputs ELSE QueryOutputs

runCommand_Callback(p) ==
    /\ proc[p].pc = "exec"
    /\ \E out \in ExecOutputs(proc[p].kind) :
          LET rec == Called(proc[p], out)
          IN  proc' = [proc EXCEPT ![p] =
                  IF out.error THEN Done(rec, "execError")
                  ELSE IF Len(out.stderr) > 0 /\ out.stdout = <<>>
                  THEN Done(rec, "stderrOnly")
                  ELSE IF rec.kind = "desc"
                  THEN IF Parsed(out) = <<>> THEN Done(rec, "parseFailed")
                       ELSE IF LengthThrows(Parsed(out)[1]) THEN Done(rec, "parseFailed")
                       ELSE IF SortThrows(Parsed(out)[1]) THEN Done(rec, "uncaught")
                       ELSE Done([rec EXCEPT !.items = DescItems(Parsed(out)[1])], "shown")
                  ELSE Done([rec EXCEPT !.items = ParseOccurrences(out.stdout)], "shown")]
    /\ UNCHANGED <<cachedVersionCheck, lastIndexTime, now, install, ghost, call>>

(***************************************************************************)
(* The clock                                                               *)
(***************************************************************************)
MaxNow == 4

Tick ==
    /\ now < MaxNow
    /\ now' = now + 1
    /\ UNCHANGED <<cachedVersionCheck, lastIndexTime, install, proc, ghost, call>>

\* Math.floor(Date.now() / 1000) (extension.ts:356, 418).
EpochSeconds_Millis(t) == t * 500

EpochSeconds(t) == (t * 500) \div 1000

(***************************************************************************)
(* Incremental reindex (extension.ts:282-374)                              *)
(***************************************************************************)
MaxFiles == 2

FileNames == << <<"a">>, <<"b", ".", "t", "s">>, <<"c">>, <<"d">> >>

WorkspacePath == <<"/", "w">>

\* path.join(workspacePath, file)
PathJoin(dir, file) == dir \o <<"/">> \o file

\* The callback of `git diff --name-only` (extension.ts:294-298).
ChangedFiles_KeepEmpty(workspacePath, stdout) ==
    LET files == Split(stdout, <<"\n">>)
    IN  [k \in 1..Len(files) |-> PathJoin(workspacePath, files[k])]

ChangedFiles(workspacePath, stdout) ==
    LET files == OutputFilesArray(stdout)
    IN  [k \in 1..Len(files) |-> PathJoin(workspacePath, files[k])]

\* `git diff` output naming the first n files, one per line.
ChangeList(n) ==
    Output(FALSE, JoinLines([k \in 1..n |-> FileNames[k]]) \o <<"\n">>, <<>>, <<>>)

ChangeOutputs ==
    {Output(TRUE, <<>>, ErrText, <<>>), Output(FALSE, <<>>, ErrText, <<>>)}
        \cup {ChangeList(n) : n \in 0..MaxFiles}

\* lastIndexTime after `if (changedFiles.length === 0) { ...; return; }` at
\* clock t (extension.ts:317-320): the return comes before any assignment.
NoChangesRecorded_Now(t) == <<EpochSeconds(t)>>

NoChangesRecorded(t) == lastIndexTime

\* The rest of the command once the changed files are known (extension.ts:315-339):
\* nothing to do, or the first indexfile call.
reindex_Changes(p) ==
    /\ proc[p].pc = "changes"
    /\ \E out \in ChangeOutputs :
          LET rec == Called(proc[p], out)
              changedFiles == ChangedFiles(WorkspacePath, out.stdout)
          IN  /\ proc' = [proc EXCEPT ![p] =
                  IF out.error THEN Done(rec, "failed")
                  ELSE IF Len(changedFiles) = 0 THEN Done(rec, "noChanges")
                  ELSE StartExec([rec EXCEPT !.data = changedFiles, !.idx = 1,
                                      !.progress = << <<100, Len(changedFiles)>> >>],
                                 "indexfile", "indexfile")]
              /\ lastIndexTime' =
                     IF ~out.error /\ Len(changedFiles) = 0
                     THEN NoChangesRecorded(now) ELSE lastIndexTime
    /\ UNCHANGED <<cachedVersionCheck, now, install, ghost, call>>

\* What an index, indexfile or `index -i` process can give: a failed exit; a
\* clean exit with only stderr; a clean exit with output.
IndexOutputs ==
    { Output(TRUE, <<>>, ErrText, <<>>),
      Output(FALSE, <<>>, ErrText, <<>>),
      Output(FALSE, <<"o", "k", "\n">>, <<>>, <<>>) }

\* lastIndexTime after the callback that ends, or does not end, a run in
\* success at clock t (extension.ts:356, 418).
Recorded_Always(succeeded, t) == <<EpochSeconds(t)>>

Recorded_ClearedOnFailure(succeeded, t) ==
    IF succeeded THEN <<EpochSeconds(t)>> ELSE <<>>

Recorded(succeeded, t) ==
    IF succeeded THEN <<EpochSeconds(t)>> ELSE lastIndexTime

\* `if (error) { ...; reject(error); return; }` in the indexfile callback
\* (extension.ts:342-346): the rejection leaves the loop for the catch block.
Rejected_Never(out) == FALSE

Rejected_OnStderrToo(out) == out.error \/ (Len(out.stderr) > 0 /\ out.stdout = <<>>)

Rejected(out) == out.error

\* (A progress increment of 100 / n is kept as the pair <<100, n>>.)
\* The callback of one indexfile call (extension.ts:341-350), the next call of
\* the loop, and after the last one the end of the command (extension.ts:355-364).
reindex_IndexFile(p) ==
    /\ proc[p].pc = "indexfile"
    /\ \E out \in IndexOutputs :
          LET rec == Called(proc[p], out)
              last == rec.idx = Len(rec.data)
          IN  /\ proc' = [proc EXCEPT ![p] =
                      IF Rejected(out) THEN Done(rec, "failed")
                      ELSE IF ~last
                      THEN StartExec([rec EXCEPT !.idx = @ + 1,
                                          !.acc = Append(@, rec.data[rec.idx]),
                                          !.progress = Append(@, <<100, Len(rec.data)>>)],
                                     "indexfile", "indexfile")
                      ELSE Done([rec EXCEPT !.acc = Append(@, rec.data[rec.idx])],
                                "succeeded")]
              /\ lastIndexTime' = Recorded(~Rejected(out) /\ last, now)
    /\ UNCHANGED <<cachedVersionCheck, now, install, ghost, call>>

(***************************************************************************)
(* Full index (extension.ts:376-505)                                       *)
(***************************************************************************)
\* The exec callback of indexWorkspace (extension.ts:403-427).
index_Callback(p) ==
    /\ proc[p].pc = "index"
    /\ \E out \in IndexOutputs :
          LET rec == Called(proc[p], out)
          IN  /\ proc' = [proc EXCEPT ![p] =
                      IF out.error THEN Done(rec, "failed") ELSE Done(rec, "succeeded")]
              /\ lastIndexTime' = Recorded(~out.error, now)
    /\ UNCHANGED <<cachedVersionCheck, now, install, ghost, call>>

\* The quick pick of indexSubdirectories answers (extension.ts:466-488).
subdirs_Picked(p) ==
    LET rec == proc[p]
    IN  /\ rec.pc = "pick"
        /\ \E selected \in BOOLEAN :
              proc' = [proc EXCEPT ![p] =
                  IF ~selected THEN Done(rec, "noneSelected")
                  ELSE StartExec(rec, "indexsub", "index -i")]
        /\ UNCHANGED <<cachedVersionCheck, lastIndexTime, now, install, ghost, call>>

\* lastIndexTime after the exec callback of indexSubdirectories at clock t
\* (extension.ts:488-498): neither branch of the callback assigns it.
subdirs_Recorded_OnSuccess(out, t) ==
    IF out.error THEN lastIndexTime ELSE <<EpochSeconds(t)>>

subdirs_Recorded(out, t) == lastIndexTime

\* The exec callback of indexSubdirectories (extension.ts:488-498).
subdirs_Callback(p) ==
    /\ proc[p].pc = "indexsub"
    /\ \E out \in IndexOutputs :
          LET rec == Called(proc[p], out)
          IN  /\ proc' = [proc EXCEPT ![p] =
                      IF out.error THEN Done(rec, "failed") ELSE Done(rec, "succeeded")]
              /\ lastIndexTime' = subdirs_Recorded(out, now)
    /\ UNCHANGED <<cachedVersionCheck, now, install, ghost, call>>

(***************************************************************************)
(* The diff pipeline (generateDiffsForCursorChat, extension.ts:598-760)    *)
(***************************************************************************)
\* hash.split('/').pop() || hash
LastSegment(hash) ==
    LET parts == Split(hash, <<"/">>)
        last == parts[Len(parts)]
    IN  IF last # <<>> THEN last ELSE hash

DiffText == <<"d", "i", "f", "f", " ", "-", "-", "g", "i", "t", "\n">>

\* What `git show <commit> -- <file>` can give: an error, nothing, only
\* stderr, blanks, a diff.
ShowOutputs ==
    { Output(TRUE, <<>>, ErrText, <<>>),
      Output(FALSE, <<>>, <<>>, <<>>),
      Output(FALSE, <<>>, ErrText, <<>>),
      Output(FALSE, <<" ", "\n">>, <<>>, <<>>),
      Output(FALSE, DiffText, <<>>, <<>>) }

\* The block pushed for a commit (extension.ts:717), field by field.
DiffBlock(tuple, diffOutput) ==
    [commit |-> LastSegment(tuple[5]), title |-> tuple[1], author |-> tuple[3],
     date |-> tuple[4], diff |-> diffOutput]

\* `!parsed || parsed.length === 0` (extension.ts:685).
NoCommits_Never(parsed) == FALSE

NoCommits(parsed) == Len(parsed) = 0

\* The list the loop runs over: `for (const [...] of parsed)` (extension.ts:696).
LoopCommits_Sorted(parsed) == SortByDate(parsed)

LoopCommits(parsed) == parsed

\* After the loop over the commits (extension.ts:727-745).
diffs_AfterLoop_ReportsAll(rec) ==
    IF Len(rec.acc) = 0
    THEN Done([rec EXCEPT !.progress = @ \o <<30, 40>>], "noDiffs")
    ELSE [rec EXCEPT !.progress = Append(@, 30), !.pc = "open"]

diffs_AfterLoop(rec) ==
    IF Len(rec.acc) = 0
    THEN Done([rec EXCEPT !.progress = Append(@, 30)], "noDiffs")
    ELSE [rec EXCEPT !.progress = Append(@, 30), !.pc = "open"]

\* The head of the loop (extension.ts:696-705): the `git show` of the commit
\* at rec.idx, or what follows the loop.
diffs_Loop_TwoAtOnce(rec) ==
    IF rec.idx <= Len(rec.data)
    THEN StartExec(StartExec(rec, "show", "git show"), "show", "git show")
    ELSE diffs_AfterLoop(rec)

diffs_Loop(rec) ==
    IF rec.idx <= Len(rec.data) THEN StartExec(rec, "show", "git show")
    ELSE diffs_AfterLoop(rec)

\* The callback of the describe call (extension.ts:653-696): a rejection, an
\* empty result, or the loop over the commits.
diffs_Describe(p, outputs) ==
    /\ proc[p].pc = "describe"
    /\ \E out \in outputs :
          LET rec == Called(proc[p], out)
          IN  proc' = [proc EXCEPT ![p] =
                  IF out.error THEN Done(rec, "execError")
                  ELSE IF Len(out.stderr) > 0 /\ out.stdout = <<>>
                  THEN Done(rec, "stderrOnly")
                  ELSE IF Parsed(out) = <<>> THEN Done(rec, "parseFailed")
                  ELSE IF ForEachThrows(Parsed(out)[1]) THEN Done(rec, "parseFailed")
                  ELSE IF NoCommits(Parsed(out)[1]) THEN Done(rec, "noCommits")
                  ELSE diffs_Loop([rec EXCEPT !.data = LoopCommits(Parsed(out)[1]), !.idx = 1,
                                       !.progress = Append(@, 30)])]
    /\ UNCHANGED <<cachedVersionCheck, lastIndexTime, now, install, ghost, call>>

\* One turn of the loop (extension.ts:705-724): the block is kept when the
\* diff is not blank.
diffs_Collect_KeepBlank(rec, out) ==
    IF out.error THEN rec
    ELSE [rec EXCEPT !.acc = Append(@, DiffBlock(rec.data[rec.idx], out.stdout))]

diffs_Collect(rec, out) ==
    IF out.error THEN rec
    ELSE IF Trim(out.stdout) # <<>>
    THEN [rec EXCEPT !.acc = Append(@, DiffBlock(rec.data[rec.idx], out.stdout))]
    ELSE rec

\* The callback of one `git show` (extension.ts:705-725) and the next turn of
\* the loop.
diffs_Show(p) ==
    /\ proc[p].pc = "show"
    /\ \E out \in ShowOutputs :
          LET kept == diffs_Collect(Called(proc[p], out), out)
          IN  proc' = [proc EXCEPT ![p] = diffs_Loop([kept EXCEPT !.idx = @ + 1])]
    /\ UNCHANGED <<cachedVersionCheck, lastIndexTime, now, install, ghost, call>>

\* The bundle document is open and shown (extension.ts:742-756).
diffs_Opened(p) ==
    LET rec == proc[p]
    IN  /\ rec.pc = "open"
        /\ proc' = [proc EXCEPT ![p] =
               Done([rec EXCEPT !.progress = Append(@, 40)], "bundled")]
        /\ UNCHANGED <<cachedVersionCheck, lastIndexTime, now, install, ghost, call>>

(***************************************************************************)
(* Triggers                                                                *)
(***************************************************************************)
\* A command of the palette other than the queries (extension.ts:898-904).
UserCommandKinds == {"reindex", "index", "subdirs", "diffs"}

userCommand(p) ==
    \E kind \in UserCommandKinds : Invoke(p, kind, "command")

\* The promise of executeCommand for the command of rec has resolved: the
\* handler has returned.  indexWorkspace and indexSubdirectories call
\* withProgress without awaiting it (extension.ts:397, 483), so their handler
\* returns as soon as the process is started; reindexChangedFiles and the diff
\* pipeline await it (326, 641); runCommand returns after its exec call (189).
CommandResolved(rec) ==
    CASE rec.kind \in {"index", "subdirs"} -> rec.pc \in {"index", "indexsub", "done"}
      [] rec.kind \in {"reindex", "diffs"} -> rec.pc = "done"
      [] rec.kind \in {"files", "authors", "desc"} -> rec.pc \in {"exec", "done"}
      [] OTHER -> FALSE

\* The git watcher fires (extension.ts:797-809).
CommandForGitChange_AlwaysReindex == "reindex"

CommandForGitChange == IF NoLastIndexTime THEN "index" ELSE "reindex"

handleGitChange(p) ==
    Invoke(p, CommandForGitChange, "watch")

\* The activation timer fires (extension.ts:868-876, 889).
startIndexing(p) ==
    Invoke(p, "index", "activation")

(***************************************************************************)
(* Spec: every command, with the clock; the installation is any of the     *)
(* model's installations and stays as it is                                *)
(***************************************************************************)
Init ==
    /\ InitExt
    /\ install \in Installations
    /\ call = NoCall

Next ==
    \/ runCommand("user")
    \/ userCommand("user")
    \/ handleGitChange("auto")
    \/ startIndexing("auto")
    \/ \E p \in Procs :
          \/ tryNextPath(p)
          \/ runCommand_Callback(p)
          \/ reindex_Changes(p)
          \/ reindex_IndexFile(p)
          \/ index_Callback(p)
          \/ subdirs_Picked(p)
          \/ subdirs_Callback(p)
          \/ diffs_Describe(p, DescOutputs)
          \/ diffs_Show(p)
          \/ diffs_Opened(p)
    \/ Tick

Spec == Init /\ [][Next]_vars

(***************************************************************************)
(* SpecGate: the version gate under a changing installation, called by a   *)
(* query command of the user and by the activation timer's index command   *)
(***************************************************************************)
NextGate ==
    \/ runCommand("user")
    \/ startIndexing("auto")
    \/ \E p \in Procs :
          \/ tryNextPath(p)
          \/ runCommand_Callback(p)
          \/ index_Callback(p)
    \/ ChangeInstallation

SpecGate == Init /\ [][NextGate]_vars

(***************************************************************************)
(* SpecDiff: the diff pipeline on commit lists up to the bound             *)
(***************************************************************************)
\* A describe output of n commits, oldest first then alternating, so that the
\* tool's order is not the order of the dates.
CommitListOutput(n) ==
    Output(FALSE, <<"[", "]">>, <<>>,
           << [k \in 1..n |-> CommitTuple(k, IF k % 2 = 1 THEN D2021 ELSE D2023)] >>)

CommitListOutputs == {CommitListOutput(n) : n \in 0..MaxCommits}

DescribeOutputs ==
    { Output(TRUE, <<>>, ErrText, <<>>),
      Output(FALSE, <<>>, ErrText, <<>>),
      Output(FALSE, <<"[", "[">>, <<>>, <<>>) } \cup CommitListOutputs
        \cup NotArrayOutputs

generateDiffsForCursorChat(p) == Invoke(p, "diffs", "command")

NextDiff ==
    \/ generateDiffsForCursorChat("user")
    \/ tryNextPath("user")
    \/ diffs_Describe("user", DescribeOutputs)
    \/ diffs_Show("user")
    \/ diffs_Opened("user")

SpecDiff == Init /\ [][NextDiff]_vars

(***************************************************************************)
(* getCopilotResponse (extension.ts:550-596), one call on its own; time is *)
(* counted in whole seconds                                                *)
(***************************************************************************)
\* `maxRetries: number = 3`
maxRetries == 3

\* setTimeout(..., 30000) of the wait for the response.
TimeoutSeconds == 30

\* setTimeout(resolve, 2000 * attempt) of the catch block.
BackoffSeconds_Fixed(attempt) == 2

BackoffSeconds(attempt) == 2 * attempt

Prompt == <<"w", "h", "y", "?">>

\* What the temporary document holds when a change event arrives: the prompt
\* as it was, or the prompt with a suggestion after it.
DocumentContents == {Prompt, Prompt \o <<" ", "o", "k", "\n">>}

\* content.slice(prompt.length).trim()
ResponseOf(prompt, content) == Trim(SubSeq(content, Len(prompt) + 1, Len(content)))

\* The catch block: the last attempt throws, an earlier one starts its wait.
Caught(c, why) ==
    LET logged == [c EXCEPT !.log = Append(@, [attempt |-> c.attempt, why |-> why,
                                               elapsed |-> c.elapsed])]
    IN  IF c.attempt = maxRetries
        THEN [logged EXCEPT !.pc = "thrown", !.done = TRUE]
        ELSE [logged EXCEPT !.pc = "backoff", !.timer = BackoffSeconds(c.attempt),
                            !.slept = 0]

InitCopilot ==
    /\ HarnessExt
    /\ call = [fn |-> "getCopilotResponse", args |-> <<Prompt>>, done |-> FALSE,
               result |-> <<>>, attempt |-> 1, pc |-> "open", timer |-> 0,
               elapsed |-> 0, slept |-> 0, response |-> <<>>, log |-> <<>>,
               waits |-> <<>>]

\* The temporary document is opened and shown and the suggestion is triggered;
\* when they resolve the listener and the timer are set, when one throws the
\* catch block is entered.
copilot_Open ==
    /\ call.fn = "getCopilotResponse"
    /\ call.pc = "open"
    /\ \E threw \in BOOLEAN :
          call' = IF threw THEN Caught([call EXCEPT !.elapsed = 0], "threw")
                  ELSE [call EXCEPT !.pc = "wait", !.timer = TimeoutSeconds, !.elapsed = 0]
    /\ UNCHANGED ext

\* A second passes while a timer runs.
copilot_Second ==
    /\ call.fn = "getCopilotResponse"
    /\ call.pc \in {"wait", "backoff"}
    /\ call.timer > 0
    /\ call' = IF call.pc = "wait"
               THEN [call EXCEPT !.timer = @ - 1, !.elapsed = @ + 1]
               ELSE [call EXCEPT !.timer = @ - 1, !.slept = @ + 1]
    /\ UNCHANGED ext

\* onDidChangeTextDocument for the temporary document, before the timer fires:
\* content longer than the prompt is the response.
copilot_DocumentChanged ==
    /\ call.fn = "getCopilotResponse"
    /\ call.pc = "wait"
    /\ call.timer > 0
    /\ \E content \in DocumentContents :
          call' = IF Len(content) > Len(call.args[1])
                  THEN [call EXCEPT !.pc = "close", !.timer = 0,
                                    !.response = ResponseOf(call.args[1], content)]
                  ELSE call
    /\ UNCHANGED ext

\* The timer of the wait fires: the promise is rejected.
copilot_Timeout ==
    /\ call.fn = "getCopilotResponse"
    /\ call.pc = "wait"
    /\ call.timer = 0
    /\ call' = Caught(call, "timeout")
    /\ UNCHANGED ext

\* workbench.action.closeActiveEditor, then `return response`; when the close
\* throws the catch block is entered.
copilot_Close ==
    /\ call.fn = "getCopilotResponse"
    /\ call.pc = "close"
    /\ \E threw \in BOOLEAN :
          call' = IF threw THEN Caught(call, "threw")
                  ELSE [call EXCEPT !.pc = "returned", !.done = TRUE,
                                    !.result = <<call.response>>]
    /\ UNCHANGED ext

\* The timer of the catch block fires: the loop goes to its next attempt.
copilot_Retry ==
    /\ call.fn = "getCopilotResponse"
    /\ call.pc = "backoff"
    /\ call.timer = 0
    /\ call' = [call EXCEPT !.attempt = @ + 1, !.pc = "open",
                            !.waits = Append(@, call.slept), !.response = <<>>]
    /\ UNCHANGED ext

NextCopilot ==
    \/ copilot_Open
    \/ copilot_Second
    \/ copilot_DocumentChanged
    \/ copilot_Timeout
    \/ copilot_Close
    \/ copilot_Retry

SpecCopilot == InitCopilot /\ [][NextCopilot]_vars

(***************************************************************************)
(* The stdout listener of indexWorkspace (extension.ts:391, 429-439), one  *)
(* index process on its own: its output arrives in chunks                  *)
(***************************************************************************)
MaxOutputLines == 2

MaxChunks == 3

\* The literal of /Indexing file:/g.
INDEXING_FILE ==
    <<"I", "n", "d", "e", "x", "i", "n", "g", " ", "f", "i", "l", "e", ":">>

\* output.match(/Indexing file:/g): the number of matches from position i on,
\* each match found after the end of the one before.
RECURSIVE MatchCountFrom(_, _)
MatchCountFrom(output, i) ==
    IF i > Len(output) THEN 0
    ELSE IF HasPrefixAt(output, i, INDEXING_FILE)
    THEN 1 + MatchCountFrom(output, i + Len(INDEXING_FILE))
    ELSE MatchCountFrom(output, i + 1)

MatchCount(output) == MatchCountFrom(output, 1)

\* Lines the index process prints.
OutputLines ==
    { INDEXING_FILE \o <<" ", "a", "\n">>, <<"o", "k", "\n">> }

RECURSIVE Concat(_)
Concat(ls) == IF ls = <<>> THEN <<>> ELSE ls[1] \o Concat(Tail(ls))

IndexStreams == {Concat(ls) : ls \in SeqsUpTo(OutputLines, MaxOutputLines)}

\* `let filesIndexed = 0` and the process started; nothing has arrived yet.
InitIndexOutput ==
    /\ HarnessExt
    /\ \E stream \in IndexStreams :
          call = [fn |-> "indexWorkspace", args |-> <<stream>>, done |-> FALSE,
                  result |-> <<>>, delivered |-> 0, chunks |-> 0,
                  filesIndexed |-> 0, reports |-> <<>>]

\* cp.stdout's "data" event with the next chunk of the stream, of any length;
\* the last chunk the model allows takes what is left.
index_StdoutData ==
    /\ call.fn = "indexWorkspace"
    /\ ~call.done
    /\ call.delivered < Len(call.args[1])
    /\ \E n \in 1..(Len(call.args[1]) - call.delivered) :
          LET output == SubSeq(call.args[1], call.delivered + 1, call.delivered + n)
              fileMatches == MatchCount(output)
          IN  /\ call.chunks + 1 = MaxChunks => call.delivered + n = Len(call.args[1])
              /\ call' = [call EXCEPT
                     !.delivered = @ + n,
                     !.chunks = @ + 1,
                     !.filesIndexed = @ + fileMatches,
                     !.reports = IF fileMatches > 0
                                 THEN Append(@, call.filesIndexed + fileMatches)
                                 ELSE @]
    /\ UNCHANGED ext

\* The exec callback of a process that succeeded, after its output has been
\* delivered: the count goes into the completion message.
index_Exit ==
    /\ call.fn = "indexWorkspace"
    /\ ~call.done
    /\ call.delivered = Len(call.args[1])
    /\ call' = [call EXCEPT !.done = TRUE, !.result = <<call.filesIndexed>>]
    /\ UNCHANGED ext

NextIndexOutput == index_StdoutData \/ index_Exit

SpecIndexOutput == InitIndexOutput /\ [][NextIndexOutput]_vars

(***************************************************************************)
(* SpecRepo: the index runs of the git watcher beside a repository that    *)
(* changes; `call` keeps the changes made, each with its second and the    *)
(* runs whose index command was under way when it was made                 *)
(***************************************************************************)
MaxChanges == 2

\* The runs with an index, indexfile or change-list command under way.
RunsUnderWay ==
    {p \in Procs : proc[p].pc \in {"index", "indexfile", "changes"}}

InitRepo ==
    /\ InitExt
    /\ install \in Installations
    /\ call = [fn |-> "repository", args |-> <<>>, done |-> FALSE, result |-> <<>>,
               changes |-> {}]

\* A commit, checkout or merge changes the repository now (the events the
\* watchers of setupGitWatcher look for, extension.ts:776-794).
RepositoryChange ==
    /\ call.fn = "repository"
    /\ Cardinality(call.changes) < MaxChanges
    /\ call' = [call EXCEPT !.changes =
                   @ \cup {[at |-> EpochSeconds(now), during |-> RunsUnderWay]}]
    /\ UNCHANGED ext

NextRepo ==
    \/ handleGitChange("auto")
    \/ tryNextPath("auto")
    \/ index_Callback("auto")
    \/ reindex_Changes("auto")
    \/ reindex_IndexFile("auto")
    \/ Tick
    \/ RepositoryChange

SpecRepo == InitRepo /\ [][NextRepo]_vars

(***************************************************************************)
(* SpecWatch: the git watchers (setupGitWatcher, extension.ts:762-816,     *)
(* activate 834-841, deactivate 908-913); `call` keeps the setting, the    *)
(* watchers created and not disposed, and the array gitWatchers            *)
(***************************************************************************)
MaxSetups == 3

WatchedPaths == {"HEAD", "refs/heads"}

\* The two watchers a call of setupGitWatcher creates, the n-th that does.
NewWatchers(n) == <<[made |-> n, path |-> "HEAD"], [made |-> n, path |-> "refs/heads"]>>

Range(seq) == {seq[k] : k \in 1..Len(seq)}

\* What setupGitWatcher does to the watchers, for the setting and the
\* workspace it finds (extension.ts:762-816).
setupGitWatcher(w, autoIndexOnCommit, hasGitFolder) ==
    IF ~autoIndexOnCommit
    THEN [w EXCEPT !.live = @ \ Range(w.gitWatchers), !.gitWatchers = <<>>]
    ELSE IF ~hasGitFolder THEN w
    ELSE [w EXCEPT !.live = @ \cup Range(NewWatchers(w.setups + 1)),
                   !.gitWatchers = NewWatchers(w.setups + 1),
                   !.setups = @ + 1]

\* Before activation: `let gitWatchers = []` (extension.ts:11).
InitWatch ==
    /\ HarnessExt
    /\ \E autoIndexOnCommit \in BOOLEAN :
          call = [fn |-> "gitWatchers", args |-> <<>>, done |-> FALSE, result |-> <<>>,
                  phase |-> "inactive", setting |-> autoIndexOnCommit,
                  live |-> {}, gitWatchers |-> <<>>, setups |-> 0,
                  triggered |-> [path \in WatchedPaths |-> 0]]

\* activate calls setupGitWatcher (extension.ts:832).
watch_Activate ==
    /\ call.fn = "gitWatchers"
    /\ call.phase = "inactive"
    /\ \E hasGitFolder \in BOOLEAN :
          call' = [setupGitWatcher(call, call.setting, hasGitFolder) EXCEPT !.phase = "active"]
    /\ UNCHANGED ext

\* onDidChangeConfiguration for contextpilot.autoIndexOnGitCommit: the setting
\* was written in some scope; its effective value is read again
\* (extension.ts:835-841).
watch_ConfigurationChanged ==
    /\ call.fn = "gitWatchers"
    /\ call.phase = "active"
    /\ \E autoIndexOnCommit \in BOOLEAN, hasGitFolder \in BOOLEAN :
          /\ setupGitWatcher(call, autoIndexOnCommit, hasGitFolder).setups <= MaxSetups
          /\ call' = [setupGitWatcher(call, autoIndexOnCommit, hasGitFolder)
                          EXCEPT !.setting = autoIndexOnCommit]
    /\ UNCHANGED ext

\* A file under .git changes: every live watcher of that path calls
\* handleGitChange (extension.ts:811-812).
watch_GitEvent ==
    /\ call.fn = "gitWatchers"
    /\ call.phase = "active"
    /\ \E path \in WatchedPaths :
          call' = [call EXCEPT !.triggered[path] =
                      Cardinality({w \in call.live : w.path = path})]
    /\ UNCHANGED ext

\* deactivate (extension.ts:908-913).
watch_Deactivate ==
    /\ call.fn = "gitWatchers"
    /\ call.phase = "active"
    /\ call' = [call EXCEPT !.phase = "deactivated",
                            !.live = @ \ Range(call.gitWatchers),
                            !.gitWatchers = <<>>, !.done = TRUE]
    /\ UNCHANGED ext

NextWatch ==
    \/ watch_Activate
    \/ watch_ConfigurationChanged
    \/ watch_GitEvent
    \/ watch_Deactivate

SpecWatch == InitWatch /\ [][NextWatch]_vars

(***************************************************************************)
(* The status bar item during index runs (extension.ts:322-371, 393-424)   *)
(***************************************************************************)
MaxRuns == 2
MaxClock == 4

\* setTimeout(..., 3000): the delay in seconds (extension.ts:362, 424).
ResetSeconds == 3

IdleText == "$(search) ContextPilot"

IndexKinds == {"index", "reindex"}

\* The text a run sets when it starts (extension.ts:394, 323).
InProgressText(kind) ==
    IF kind = "index" THEN "$(sync~spin) ContextPilot: Indexing..."
    ELSE "$(sync~spin) ContextPilot: Re-indexing..."

\* The text a run sets when it ends (extension.ts:421, 407, 359, 368).
FinishedText(kind, ok) ==
    IF kind = "index"
    THEN IF ok THEN "$(check) ContextPilot: Indexing Done"
         ELSE "$(error) ContextPilot: Indexing Failed"
    ELSE IF ok THEN "$(check) ContextPilot: Re-indexing Done"
         ELSE "$(error) ContextPilot: Re-indexing Failed"

\* After activate: the item shows the idle text, nothing runs, no timer is
\* armed (extension.ts:824-829).
InitStatus ==
    /\ HarnessExt
    /\ call = [fn |-> "statusBarItem", args |-> <<>>, done |-> FALSE, result |-> <<>>,
               text |-> IdleText,
               runs |-> [r \in 1..MaxRuns |-> "none"],
               timers |-> {}, clock |-> 0]

\* A full or incremental run reaches the line that sets the in-progress text
\* and starts its work (extension.ts:393-397, 322-326).
status_Start ==
    /\ call.fn = "statusBarItem"
    /\ \E r \in 1..MaxRuns, kind \in IndexKinds :
          /\ call.runs[r] = "none"
          /\ call' = [call EXCEPT !.runs[r] = kind,
                                  !.text = InProgressText(kind)]
    /\ UNCHANGED ext

\* A run ends, with or without an error: it sets its own final text and arms a
\* timer that nothing cancels (extension.ts:404-424, 358-371).
status_Finish ==
    /\ call.fn = "statusBarItem"
    /\ \E r \in 1..MaxRuns, ok \in BOOLEAN :
          /\ call.runs[r] # "none"
          /\ call' = [call EXCEPT !.runs[r] = "none",
                                  !.text = FinishedText(call.runs[r], ok),
                                  !.timers = @ \cup {call.clock + ResetSeconds}]
    /\ UNCHANGED ext

\* A reset timer fires (extension.ts:408-410, 422-424, 360-362, 369-371).
status_Timer ==
    /\ call.fn = "statusBarItem"
    /\ \E due \in call.timers :
          /\ due <= call.clock
          /\ call' = [call EXCEPT !.text = IdleText, !.timers = @ \ {due}]
    /\ UNCHANGED ext

\* A second passes; a timer that is due fires first.
status_Tick ==
    /\ call.fn = "statusBarItem"
    /\ call.clock < MaxClock
    /\ \A due \in call.timers : due > call.clock
    /\ call' = [call EXCEPT !.clock = @ + 1]
    /\ UNCHANGED ext

NextStatus ==
    \/ status_Start
    \/ status_Finish
    \/ status_Timer
    \/ status_Tick

SpecStatus == InitStatus /\ [][NextStatus]_vars

(***************************************************************************)
(* C1                                                                      *)
(***************************************************************************)
\* The triples as a reader of the claim computes them: a digits.digits.digits
\* occurrence is any four cut points with digits between them and dots on them.
HasVersionPattern(s) ==
    \E a, b, c, d \in 1..(Len(s) + 1) :
        /\ a < b /\ b + 1 < c /\ c + 1 < d
        /\ \A k \in a..(b - 1) : IsDigit(s[k])
        /\ s[b] = "."
        /\ \A k \in (b + 1)..(c - 1) : IsDigit(s[k])
        /\ s[c] = "."
        /\ \A k \in (c + 1)..(d - 1) : IsDigit(s[k])

LexGE(a, b) ==
    \/ a[1] > b[1]
    \/ a[1] = b[1] /\ a[2] > b[2]
    \/ a[1] = b[1] /\ a[2] = b[2] /\ a[3] >= b[3]

\* C1: isVersionCompatible(v, r) is true exactly when the (major, minor, patch)
\* triple parsed from v is lexicographically >= the triple parsed from r, a string
\* without a digits.digits.digits occurrence parsing to (0,0,0).
C1_CompatibleIffLexGE ==
    (call.fn = "isVersionCompatible" /\ call.done) =>
        LET v == call.args[1]
            r == call.args[2]
        IN  /\ call.result = LexGE(parseVersion(v), parseVersion(r))
            /\ ~HasVersionPattern(v) => parseVersion(v) = <<0, 0, 0>>
            /\ ~HasVersionPattern(r) => parseVersion(r) = <<0, 0, 0>>
            /\ HasVersionPattern(v) => VersionMatch(v) # <<>>

\* The comparison has been made on 0.9.0 against 0.9.0 (equal triples).
C1_Witness ==
    /\ call.fn = "isVersionCompatible"
    /\ call.done
    /\ call.args = <<MIN_CONTEXTPILOT_VERSION, MIN_CONTEXTPILOT_VERSION>>
    /\ call.result = TRUE

(***************************************************************************)
(* C2  Once a call of checkContextPilotVersion has completed with true,    *)
(* every call made later returns true and runs no `--version` probe.       *)
(***************************************************************************)
C2_LaterCallsReturnTrue ==
    \A p \in Procs :
        proc[p].afterTrue => proc[p].gate = "true" /\ proc[p].probes = 0

\* The part of C2 that holds of every call: after a completed true, no probe.
C2_LaterCallsDoNotProbe ==
    \A p \in Procs : proc[p].afterTrue => proc[p].probes = 0

\* C2 for calls of the gate that never overlap.
C2_SequentialCalls ==
    ghost.overlap \/ C2_LaterCallsReturnTrue

\* A later call has returned false: the first call ended true, a call that was
\* probing at that time ended false after it.
C2_Flipped ==
    \E p \in Procs :
        proc[p].afterTrue /\ proc[p].gate = "false" /\ proc[p].why = "cached"

(***************************************************************************)
(* C3  Once a call of checkContextPilotVersion has completed with false,   *)
(* every call made later returns false and runs no probe, whatever the     *)
(* installation has become.                                                *)
(***************************************************************************)
C3_LaterCallsReturnFalse ==
    \A p \in Procs :
        proc[p].afterFalse => proc[p].gate = "false" /\ proc[p].probes = 0

\* The part of C3 that holds of every call: after a completed false, no probe.
C3_LaterCallsDoNotProbe ==
    \A p \in Procs : proc[p].afterFalse => proc[p].probes = 0

\* C3 for calls of the gate that never overlap.
C3_SequentialCalls ==
    ghost.overlap \/ C3_LaterCallsReturnFalse

\* Sequential calls, the installation repaired in between: the later call
\* still answers false from the cache.
C3_StaysFalseAfterRepair ==
    /\ ~ghost.overlap
    /\ ProbeVerdict(install[1].error, install[1].stdout) = "ok"
    /\ \E p \in Procs :
          proc[p].afterFalse /\ proc[p].gate = "false" /\ proc[p].probes = 0

(***************************************************************************)
(* C4  A command whose gate call returned false has started no external    *)
(* command and no git command: it has ended at the gate.                   *)
(***************************************************************************)
C4_FailedGateStartsNothing ==
    \A p \in Procs :
        proc[p].gate = "false" =>
            /\ proc[p].cmds = <<>>
            /\ proc[p].pc = "done"
            /\ proc[p].outs = <<>>
            /\ proc[p].progress = <<>>

C4_Witness ==
    /\ proc["auto"].gate = "false" /\ proc["auto"].origin = "watch"
    /\ proc["user"].gate = "false" /\ proc["user"].kind = "diffs"

(***************************************************************************)
(* C5                                                                      *)
(***************************************************************************)
RECURSIVE ExpectedItems(_)
ExpectedItems(plan) ==
    IF plan = <<>> THEN <<>>
    ELSE LET e == LineSamples[Head(plan)].item
         IN  (IF e = <<>> THEN <<>>
              ELSE <<[label |-> e[1], description |-> e[2] \o OCCURRENCES]>>)
             \o ExpectedItems(Tail(plan))

\* C5: occurrence-list parsing yields exactly one item per non-empty trimmed line
\* of stdout, in the order of the lines; the label is the text before the first
\* " - " and the count the N of "- N occurrences", or 0 when that is absent.
C5_OccurrenceParsingTotalOrdered ==
    (call.fn = "ParseOccurrences" /\ call.done) =>
        call.result = ExpectedItems(call.args[1])

\* A three-line output with a blank line between a well-formed and a malformed
\* line has been parsed into two items.
C5_Witness ==
    /\ call.fn = "ParseOccurrences"
    /\ call.done
    /\ call.args[1] = <<1, 3, 2>>
    /\ Len(call.result) = 2

(***************************************************************************)
(* C6                                                                      *)
(***************************************************************************)
\* The tuple an item was made from.
ItemTuple(it) == <<it.label, it.fullDescription, it.author, it.date, it.commitUrl>>

IsPermutation(s, t) ==
    /\ Len(s) = Len(t)
    /\ \A x \in {s[k] : k \in 1..Len(s)} \cup {t[k] : k \in 1..Len(t)} :
          Cardinality({k \in 1..Len(s) : s[k] = x})
              = Cardinality({k \in 1..Len(t) : t[k] = x})

\* C6: the items presented for a parsed desc output are a permutation of the
\* parsed tuples in which, of two adjacent items with parseable and distinct
\* dates, the earlier one has the later date.
C6_DescItemsDateDescending ==
    (call.fn = "DescItems" /\ call.done) =>
        LET items == call.result
        IN  /\ IsPermutation([k \in 1..Len(items) |-> ItemTuple(items[k])], call.args)
            /\ \A k \in 1..(Len(items) - 1) :
                  LET t1 == GetTime(items[k].date)
                      t2 == GetTime(items[k + 1].date)
                  IN  (t1 # <<>> /\ t2 # <<>> /\ t1 # t2) => t1[1] > t2[1]

\* The spec's example: dates 2021, 2023, 2022 come out as 2023, 2022, 2021.
C6_Witness ==
    /\ call.fn = "DescItems"
    /\ call.done
    /\ Len(call.args) = 3
    /\ <<call.args[1][4], call.args[2][4], call.args[3][4]>> = <<D2021, D2023, D2022>>
    /\ <<call.result[1].date, call.result[2].date, call.result[3].date>>
           = <<D2023, D2022, D2021>>

(***************************************************************************)
(* C7  The bundle of generateDiffsForCursorChat holds exactly the commits  *)
(* whose `git show` succeeded with text that is not blank, in the order of *)
(* the describe result; a failed or blank commit is dropped, nothing is    *)
(* put in its place and the pipeline goes on.                              *)
(***************************************************************************)
\* The commits looked at so far whose `git show` gave a diff; the show of
\* commit k is the callback k + 1 of the run, after the describe call.
Retrieved(rec) ==
    { k \in 1..(Len(rec.outs) - 1) :
        /\ ~rec.outs[k + 1].error
        /\ \E i \in 1..Len(rec.outs[k + 1].stdout) : ~IsSpace(rec.outs[k + 1].stdout[i]) }

\* The i-th retrieved commit, in the order of the describe result.
NthRetrieved(rec, i) ==
    CHOOSE k \in Retrieved(rec) : Cardinality({j \in Retrieved(rec) : j <= k}) = i

C7_BundleIsRetrievedInOrder ==
    \A p \in Procs :
        LET rec == proc[p]
        IN  (rec.kind = "diffs" /\ Len(rec.outs) > 1) =>
                /\ Len(rec.acc) = Cardinality(Retrieved(rec))
                /\ \A i \in 1..Len(rec.acc) :
                      LET c == rec.data[NthRetrieved(rec, i)]
                      IN  /\ rec.acc[i].title = c[1]
                          /\ rec.acc[i].author = c[3]
                          /\ rec.acc[i].date = c[4]
                          /\ rec.acc[i].diff = rec.outs[NthRetrieved(rec, i) + 1].stdout
                /\ rec.pc \in {"show", "open", "done"}
                /\ rec.pc = "done" => rec.outcome \in {"bundled", "noDiffs"}
                /\ rec.pc = "show" <=> Len(rec.outs) - 1 < Len(rec.data)
                /\ rec.outcome = "noDiffs" <=> (rec.pc = "done" /\ Retrieved(rec) = {})

\* [A, B, C] with the show of B failing: the bundle is [A, C].
C7_Witness ==
    LET rec == proc["user"]
    IN  /\ rec.outcome = "bundled"
        /\ Len(rec.data) = 3
        /\ rec.outs[3].error
        /\ Len(rec.acc) = 2
        /\ rec.acc[1].title = rec.data[1][1]
        /\ rec.acc[2].title = rec.data[3][1]

(***************************************************************************)
(* C8  When the describe call succeeds and parses to no commit, the        *)
(* pipeline resolves with nothing bundled and starts no `git show`.        *)
(***************************************************************************)
C8_NoCommitsNoShow ==
    \A p \in Procs :
        LET rec == proc[p]
        IN  (/\ rec.kind = "diffs"
             /\ rec.outs # <<>>
             /\ ~rec.outs[1].error
             /\ rec.outs[1].json = << <<>> >>) =>
                /\ rec.pc = "done"
                /\ rec.outcome = "noCommits"
                /\ rec.acc = <<>>
                /\ rec.cmds = <<"desc">>
                /\ rec.progress = <<0>>

C8_Witness ==
    /\ proc["user"].kind = "diffs"
    /\ proc["user"].outs = <<CommitListOutput(0)>>
    /\ proc["user"].outcome = "noCommits"

(***************************************************************************)
(* C9  An incremental reindex that finds no changed path ends without      *)
(* error and starts no indexfile call; its only external command is the    *)
(* change-list query.                                                      *)
(***************************************************************************)
C9_NoChangesNoIndexfile ==
    \A p \in Procs :
        LET rec == proc[p]
        IN  rec.kind = "reindex" =>
                /\ (/\ rec.outs # <<>>
                    /\ ~rec.outs[1].error
                    /\ \A i \in 1..Len(rec.outs[1].stdout) : IsSpace(rec.outs[1].stdout[i])) =>
                        /\ rec.pc = "done"
                        /\ rec.outcome = "noChanges"
                        /\ rec.cmds = <<"git diff">>
                /\ rec.outcome = "noChanges" => rec.cmds \in {<<>>, <<"git diff">>}

C9_Witness ==
    /\ proc["user"].kind = "reindex"
    /\ proc["user"].outs = <<ChangeList(0)>>
    /\ proc["user"].outcome = "noChanges"
    /\ proc["user"].cmds = <<"git diff">>

(***************************************************************************)
(* C10  The step that completes a full index, or an incremental reindex    *)
(* over a list that is not empty, with success sets lastIndexTime to the   *)
(* epoch second of that moment.                                            *)
(***************************************************************************)
\* Second t holds the clock reading: 1000 t <= Date.now() < 1000 (t + 1).
IsSecondOf(t, clock) ==
    1000 * t <= 500 * clock /\ 500 * clock < 1000 * (t + 1)

C10_SuccessRecordsCompletionTime ==
    [][\A p \in Procs :
          (/\ proc[p].kind \in {"index", "reindex"}
           /\ proc[p].outcome # "succeeded"
           /\ proc'[p].outcome = "succeeded") =>
              /\ Len(lastIndexTime') = 1
              /\ IsSecondOf(lastIndexTime'[1], now')]_vars

C10_Witness ==
    /\ proc["user"].kind = "reindex"
    /\ proc["user"].outcome = "succeeded"
    /\ Len(proc["user"].data) = MaxFiles
    /\ proc["auto"].kind = "index"
    /\ proc["auto"].outcome = "succeeded"
    /\ lastIndexTime = <<2>>

(***************************************************************************)
(* C11  The step that ends a full index or an incremental reindex in       *)
(* failure (the index process, the change-list query or an indexfile call  *)
(* errors) leaves lastIndexTime as it was, and so does every earlier step  *)
(* of that run: only a step that ends a run in success changes it.         *)
(***************************************************************************)
\* The callback p receives in this step, when it reports an error.
ErrorReported(p) ==
    /\ Len(proc'[p].outs) = Len(proc[p].outs) + 1
    /\ proc'[p].outs[Len(proc'[p].outs)].error

C11_FailureKeepsLastIndexTime ==
    [][/\ \A p \in Procs :
             (proc[p].kind \in {"index", "reindex"} /\ ErrorReported(p)) =>
                 /\ lastIndexTime' = lastIndexTime
                 /\ proc'[p].pc = "done"
                 /\ proc'[p].outcome = "failed"
       /\ lastIndexTime' # lastIndexTime =>
             \E p \in Procs :
                 /\ proc[p].outcome # "succeeded"
                 /\ proc'[p].outcome = "succeeded"]_vars

\* A reindex that failed at its second file after a full index had recorded
\* second 1: the timestamp is still that of the full index.
C11_Witness ==
    /\ proc["user"].kind = "reindex"
    /\ proc["user"].outcome = "failed"
    /\ Len(proc["user"].outs) = 3
    /\ lastIndexTime = <<1>>
    /\ now > 3

(***************************************************************************)
(* C12  A git change event handled by the watcher invokes the full index   *)
(* when lastIndexTime is absent at that moment and the incremental reindex *)
(* otherwise: exactly one command, never both, never neither.              *)
(***************************************************************************)
\* This step starts a run for the watcher in p.
WatchRunStarts(p) ==
    /\ proc[p].pc \in {"idle", "done"}
    /\ proc'[p] # proc[p]
    /\ proc'[p].origin = "watch"

C12_WatchChoosesByLastIndexTime ==
    [][\A p \in Procs :
          WatchRunStarts(p) =>
              /\ proc'[p].kind = (IF lastIndexTime = <<>> THEN "index" ELSE "reindex")
              /\ \A q \in Procs \ {p} : proc'[q] = proc[q]]_vars

\* The watcher has started an incremental reindex, and its change-list query
\* is in flight.
C12_Witness ==
    /\ proc["auto"].origin = "watch"
    /\ proc["auto"].kind = "reindex"
    /\ proc["auto"].cmds = <<"git diff">>
    /\ lastIndexTime # <<>>

(***************************************************************************)
(* C13  As stated: after a failed indexfile call for one path the batch    *)
(* goes on, so a reindex over p1..pn that has ended has issued n indexfile *)
(* calls.                                                                  *)
(***************************************************************************)
IndexfileCalls(rec) == Cardinality({k \in 1..Len(rec.cmds) : rec.cmds[k] = "indexfile"})

C13_BatchContinues ==
    \A p \in Procs :
        LET rec == proc[p]
        IN  (rec.kind = "reindex" /\ rec.pc = "done" /\ rec.data # <<>>) =>
                IndexfileCalls(rec) = Len(rec.data)

(***************************************************************************)
(* C13, amended  A failed indexfile call for path pi ends the run: the run *)
(* is reported as failed, pi was the last call issued, and p1..p(i-1) are  *)
(* the paths indexed.                                                      *)
(***************************************************************************)
C13_BatchStopsAtFirstFailure ==
    \A p \in Procs :
        LET rec == proc[p]
        IN  rec.kind = "reindex" =>
                \A i \in 1..Len(rec.data) :
                    (Len(rec.outs) > i /\ rec.outs[i + 1].error) =>
                        /\ rec.pc = "done"
                        /\ rec.outcome = "failed"
                        /\ Len(rec.outs) = i + 1
                        /\ IndexfileCalls(rec) = i
                        /\ rec.acc = SubSeq(rec.data, 1, i - 1)

\* Two changed paths, the call for the first fails: none is issued for the second.
C13_Witness ==
    LET rec == proc["user"]
    IN  /\ rec.kind = "reindex"
        /\ Len(rec.data) = 2
        /\ Len(rec.outs) = 2
        /\ rec.outs[2].error
        /\ rec.cmds = <<"git diff", "indexfile">>
        /\ rec.outcome = "failed"

(***************************************************************************)
(* C14  As stated: every external invocation is treated as failed when the *)
(* process exits non-zero and also when it exits zero with stderr and no   *)
(* stdout, and as succeeded otherwise.                                     *)
(***************************************************************************)
\* The rule of the statement.
FailsByStatusOrStderr(out) ==
    out.error \/ (out.stderr # <<>> /\ out.stdout = <<>>)

FailureOutcomes == {"failed", "execError", "stderrOnly"}

\* The run took its k-th callback as the failure of the command.
TreatedAsFailed(rec, k) ==
    k = Len(rec.outs) /\ rec.pc = "done" /\ rec.outcome \in FailureOutcomes

\* The k-th callback of the run is that of a `git show`.
IsShow(rec, k) == rec.kind = "diffs" /\ k > 1

\* The commit of the k-th callback has a block in the bundle.
HasBlock(rec, k) ==
    \E i \in 1..Len(rec.acc) : rec.acc[i].title = rec.data[k - 1][1]

C14_OneFailureRuleEverywhere ==
    \A p \in Procs :
        LET rec == proc[p]
        IN  \A k \in 1..Len(rec.outs) :
                IF IsShow(rec, k)
                THEN FailsByStatusOrStderr(rec.outs[k]) => ~HasBlock(rec, k)
                ELSE FailsByStatusOrStderr(rec.outs[k]) <=> TreatedAsFailed(rec, k)

(***************************************************************************)
(* C14, amended  The query, authors and desc calls of runCommand and the   *)
(* describe call of the diff pipeline fail on a non-zero exit and on       *)
(* stderr without stdout; index, indexfile, the subdirectory index, the    *)
(* change-list query and `git show` fail on a non-zero exit only, and a    *)
(* clean exit with stderr and no stdout counts as success with empty       *)
(* output. A failed `git show` drops its commit and never ends the run.    *)
(***************************************************************************)
ChecksStderr(rec, k) ==
    rec.kind \in RunCommandKinds \/ (rec.kind = "diffs" /\ k = 1)

C14_FailureRulePerCallSite ==
    \A p \in Procs :
        LET rec == proc[p]
        IN  \A k \in 1..Len(rec.outs) :
                IF IsShow(rec, k)
                THEN /\ rec.outs[k].error => ~HasBlock(rec, k)
                     /\ ~TreatedAsFailed(rec, k)
                ELSE IF ChecksStderr(rec, k)
                THEN FailsByStatusOrStderr(rec.outs[k]) <=> TreatedAsFailed(rec, k)
                ELSE rec.outs[k].error <=> TreatedAsFailed(rec, k)

\* An index process that exits cleanly with only stderr is a success and sets
\* the timestamp, while a query with the same output is reported as failed.
C14_Witness ==
    /\ proc["auto"].kind = "index"
    /\ proc["auto"].outs = <<Output(FALSE, <<>>, ErrText, <<>>)>>
    /\ proc["auto"].outcome = "succeeded"
    /\ lastIndexTime # <<>>
    /\ proc["user"].kind = "files"
    /\ proc["user"].outs = <<Output(FALSE, <<>>, ErrText, <<>>)>>
    /\ proc["user"].outcome = "stderrOnly"

(***************************************************************************)
(* C15  A desc or describe call that succeeds as a process with output     *)
(* that is not JSON ends the action as parse-failed, an outcome other than *)
(* the command failures; no commit item is presented, nothing is bundled   *)
(* and no `git show` is started.                                           *)
(***************************************************************************)
C15_ParseFailureIsHard ==
    \A p \in Procs :
        LET rec == proc[p]
        IN  (/\ rec.kind \in {"desc", "diffs"}
             /\ rec.outs # <<>>
             /\ ~FailsByStatusOrStderr(rec.outs[1])
             /\ rec.outs[1].json = <<>>) =>
                /\ rec.pc = "done"
                /\ rec.outcome = "parseFailed"
                /\ rec.outcome \notin FailureOutcomes
                /\ rec.items = <<>>
                /\ rec.acc = <<>>
                /\ rec.cmds = <<"desc">>
                /\ Len(rec.outs) = 1

\* The describe call of the diff pipeline printed text that is not JSON.
C15_Witness ==
    /\ proc["user"].kind = "diffs"
    /\ proc["user"].outs = <<Output(FALSE, <<"[", "[">>, <<>>, <<>>)>>
    /\ proc["user"].outcome = "parseFailed"

(***************************************************************************)
(* C16  As stated: the diff pipeline processes the commits, and orders the *)
(* bundle, by date descending and not in the order the tool printed them.  *)
(***************************************************************************)
DateDescending(dates) ==
    \A i, j \in 1..Len(dates) :
        i < j => GetTime(dates[i])[1] >= GetTime(dates[j])[1]

C16_BundleDateDescending ==
    \A p \in Procs :
        LET rec == proc[p]
        IN  rec.kind = "diffs" =>
                /\ DateDescending([k \in 1..Len(rec.data) |-> rec.data[k][4]])
                /\ DateDescending([k \in 1..Len(rec.acc) |-> rec.acc[k].date])

(***************************************************************************)
(* C16, amended  The diff pipeline processes the commits in the order of   *)
(* the describe output, and the bundle keeps that order; nothing is sorted.*)
(***************************************************************************)
C16_BundleInToolOrder ==
    \A p \in Procs :
        LET rec == proc[p]
        IN  (rec.kind = "diffs" /\ Len(rec.outs) > 1) =>
                /\ rec.data = rec.outs[1].json[1]
                /\ \A i \in 1..Len(rec.acc) :
                      rec.acc[i].title = rec.outs[1].json[1][NthRetrieved(rec, i)][1]

\* Two commits printed oldest first, both retrieved: the bundle is oldest first.
C16_Witness ==
    LET rec == proc["user"]
    IN  /\ rec.kind = "diffs"
        /\ rec.outcome = "bundled"
        /\ Len(rec.acc) = 2
        /\ rec.acc[1].date = D2021
        /\ rec.acc[2].date = D2023

(***************************************************************************)
(* C17  As stated: a candidate that errors, prints nothing, or prints text *)
(* without the announcement is taken as not found here; the scan goes on   *)
(* with the next candidate and the gate does not fail because of it.       *)
(***************************************************************************)
\* The k-th candidate of the call gave nothing: an error, or no output.
GaveNothing(rec, k) == rec.seen[k].error \/ rec.seen[k].stdout = <<>>

\* The k-th candidate of the call printed something other than the announcement.
NoAnnouncement(rec, k) ==
    ~GaveNothing(rec, k) /\ AnnouncementMatch(Trim(rec.seen[k].stdout)) = <<>>

\* After candidate k the call went on to candidate k + 1, or, k being the
\* last of the list, ended as not installed.
WentOn(rec, k) ==
    IF k < 5
    THEN Len(rec.seen) > k \/ (rec.pc = "probe" /\ rec.idx = k + 1)
    ELSE rec.gate = "false" /\ rec.why = "notInstalled"

C17_UnmatchedCandidateIsSkipped ==
    \A p \in Procs :
        \A k \in 1..Len(proc[p].seen) :
            (GaveNothing(proc[p], k) \/ NoAnnouncement(proc[p], k)) => WentOn(proc[p], k)

(***************************************************************************)
(* C17, amended  A candidate that errors or prints nothing is taken as not *)
(* found here and the scan goes on; a candidate that prints text without   *)
(* the announcement ends the scan: the gate fails with the unexpected-     *)
(* format outcome and no later candidate is probed.                        *)
(***************************************************************************)
C17_OnlySilentCandidateIsSkipped ==
    \A p \in Procs :
        LET rec == proc[p]
        IN  \A k \in 1..Len(rec.seen) :
                /\ GaveNothing(rec, k) => WentOn(rec, k)
                /\ NoAnnouncement(rec, k) =>
                      /\ Len(rec.seen) = k
                      /\ rec.probes = k
                      /\ rec.gate = "false"
                      /\ rec.why = "badFormat"

\* The first candidate printed a usage text and the gate failed there, with a
\* compatible binary at the second candidate.
C17_Witness ==
    LET rec == proc["user"]
    IN  /\ rec.seen = <<[path |-> "contextpilot", error |-> FALSE, stdout |-> Usage]>>
        /\ rec.gate = "false"
        /\ rec.why = "badFormat"
        /\ install[2] = Prints(V090)

(***************************************************************************)
(* C18  A candidate that announces a version below 0.9.0 ends the scan:    *)
(* the gate fails as too old and no later candidate is probed, even one    *)
(* that would be compatible.                                               *)
(***************************************************************************)
AnnouncesOlder(rec, k) ==
    /\ ~GaveNothing(rec, k)
    /\ AnnouncementMatch(Trim(rec.seen[k].stdout)) # <<>>
    /\ ~LexGE(parseVersion(AnnouncementMatch(Trim(rec.seen[k].stdout))), <<0, 9, 0>>)

C18_TooOldEndsScan ==
    \A p \in Procs :
        LET rec == proc[p]
        IN  \A k \in 1..Len(rec.seen) :
                AnnouncesOlder(rec, k) =>
                    /\ Len(rec.seen) = k
                    /\ rec.probes = k
                    /\ rec.pc = "done"
                    /\ rec.gate = "false"
                    /\ rec.why = "tooOld"

\* 0.8.9 at the second candidate, 1.10.0 at the fourth: the scan ended at the second.
C18_Witness ==
    LET rec == proc["user"]
    IN  /\ Len(rec.seen) = 2
        /\ rec.seen[2].stdout = V089
        /\ rec.why = "tooOld"
        /\ install[4] = Prints(V1100)

(***************************************************************************)
(* C19  A gate call probes the candidates in priority order, the bare name *)
(* first, one at a time, and ends as not installed only after all five     *)
(* were probed and each errored or printed nothing.                        *)
(***************************************************************************)
PriorityOrder ==
    << "contextpilot", "~/.local/bin/contextpilot", "~/.cargo/bin/contextpilot",
       "/usr/local/bin/contextpilot", "/usr/bin/contextpilot" >>

C19_ProbesInPriorityOrder ==
    \A p \in Procs :
        LET rec == proc[p]
        IN  /\ Len(rec.seen) <= 5
            /\ \A k \in 1..Len(rec.seen) : rec.seen[k].path = PriorityOrder[k]
            /\ rec.pc = "probe" => (rec.idx = Len(rec.seen) + 1 /\ rec.probes = rec.idx)
            /\ rec.pc # "probe" => rec.probes = Len(rec.seen)
            /\ rec.why = "notInstalled" <=>
                  (Len(rec.seen) = 5 /\ \A k \in 1..5 : GaveNothing(rec, k))

C19_Witness ==
    LET rec == proc["user"]
    IN  /\ rec.why = "notInstalled"
        /\ rec.probes = 5
        /\ rec.seen[5].path = "/usr/bin/contextpilot"

(***************************************************************************)
(* C20  The commit-description sort is a total order on the parsed dates   *)
(* in which an unparseable date is the smallest: for every input order the *)
(* items come out latest first, those with an unparseable date after all   *)
(* the others.                                                             *)
(***************************************************************************)
C20_InvalidDatesLast ==
    (call.fn = "DescItems" /\ call.done) =>
        \A i, j \in 1..Len(call.result) :
            LET ti == GetTime(call.result[i].date)
                tj == GetTime(call.result[j].date)
            IN  i < j =>
                    /\ ti = <<>> => tj = <<>>
                    /\ (ti # <<>> /\ tj # <<>>) => ti[1] >= tj[1]

\* 2021, an unparseable date, 2023: the comparator answers NaN for both
\* adjacent pairs and the array is left as it is.
C20_LeftUnsorted ==
    /\ call.fn = "DescItems"
    /\ call.done
    /\ Len(call.args) = 3
    /\ <<call.args[1][4], call.args[2][4], call.args[3][4]>> = <<D2021, DInvalid, D2023>>
    /\ <<call.result[1].date, call.result[2].date, call.result[3].date>>
           = <<D2021, DInvalid, D2023>>

(***************************************************************************)
(* C21  As stated: a line that is not of the form                          *)
(* '<path> - <N> occurrences' gives an item whose path is the whole        *)
(* trimmed line and whose count is 0, also when the line holds ' - '.      *)
(***************************************************************************)
\* The non-empty trimmed lines of the output made from a plan of samples.
PlanLines(plan) ==
    LET kept == SelectSeq(plan, LAMBDA n : LineSamples[n].item # <<>>)
    IN  [k \in 1..Len(kept) |-> Trim(LineSamples[kept[k]].raw)]

\* text is "- <digits> occurrences" from position i up to position e - 1.
IsCountAt(text, i, e) ==
    /\ e <= Len(text) + 1
    /\ \E d \in (i + 3)..(e - Len(OCCURRENCES)) :
          /\ d + Len(OCCURRENCES) = e
          /\ text[i] = "-" /\ text[i + 1] = " "
          /\ \A k \in (i + 2)..(d - 1) : text[k] \in {"0", "1", "2", "3", "4", "5", "6", "7", "8", "9"}
          /\ SubSeq(text, d, e - 1) = OCCURRENCES

\* The line is '<path> - <N> occurrences' with a path that is not empty.
HasTheForm(text) ==
    \E i \in 3..Len(text) :
        IsCountAt(text, i, Len(text) + 1) /\ text[i - 1] = " "

\* The line holds '- <N> occurrences' somewhere.
HasCount(text) ==
    \E i \in 1..Len(text) : \E e \in i..(Len(text) + 1) : IsCountAt(text, i, e)

ZeroOccurrences == <<"0">> \o OCCURRENCES

C21_MalformedLineKeptWhole ==
    (call.fn = "ParseOccurrences" /\ call.done) =>
        LET lines == PlanLines(call.args[1])
        IN  /\ Len(call.result) = Len(lines)
            /\ \A k \in 1..Len(lines) :
                  ~HasTheForm(lines[k]) =>
                      /\ call.result[k].label = lines[k]
                      /\ call.result[k].description = ZeroOccurrences

(***************************************************************************)
(* C21, amended  A line that holds no '- <N> occurrences' gives an item    *)
(* with count 0 whose path is the trimmed text before the first ' - ' of   *)
(* the line: the whole trimmed line only when the line holds no ' - '.     *)
(***************************************************************************)
\* The separator ' - ' starts at position i of the line, and nowhere before.
FirstSeparatorAt(text, i) ==
    /\ i + 2 <= Len(text)
    /\ SubSeq(text, i, i + 2) = <<" ", "-", " ">>
    /\ \A j \in 1..(i - 1) : SubSeq(text, j, j + 2) # <<" ", "-", " ">>

C21_MalformedLineCutAtSeparator ==
    (call.fn = "ParseOccurrences" /\ call.done) =>
        LET lines == PlanLines(call.args[1])
        IN  /\ Len(call.result) = Len(lines)
            /\ \A k \in 1..Len(lines) :
                  ~HasCount(lines[k]) =>
                      /\ call.result[k].description = ZeroOccurrences
                      /\ \A i \in 1..Len(lines[k]) :
                            FirstSeparatorAt(lines[k], i) =>
                                call.result[k].label = Trim(SubSeq(lines[k], 1, i - 1))
                      /\ (\A i \in 1..Len(lines[k]) : ~FirstSeparatorAt(lines[k], i)) =>
                            call.result[k].label = lines[k]

\* The line "c - d" has become the item "c" with count 0.
C21_Witness ==
    /\ call.fn = "ParseOccurrences"
    /\ call.done
    /\ call.args[1] = <<7>>
    /\ call.result = <<[label |-> <<"c">>, description |-> ZeroOccurrences]>>

(***************************************************************************)
(* C22  As stated: an incremental reindex that ends as a no-op because the *)
(* changed-path list is empty records the current time as lastIndexTime.   *)
(***************************************************************************)
\* This step ends an incremental reindex of p as a no-op.
EndsAsNoOp(p) ==
    /\ proc'[p].kind = "reindex"
    /\ proc'[p].pc = "done"
    /\ proc'[p].outcome = "noChanges"
    /\ proc'[p] # proc[p]

C22_EmptyListRecordsTime ==
    [][\A p \in Procs :
          EndsAsNoOp(p) =>
              /\ Len(lastIndexTime') = 1
              /\ IsSecondOf(lastIndexTime'[1], now')]_vars

(***************************************************************************)
(* C22, amended  An incremental reindex that ends as a no-op because the   *)
(* changed-path list is empty leaves lastIndexTime as it was; the time is  *)
(* recorded only by a completion that indexed at least one path.           *)
(***************************************************************************)
C22_EmptyListKeepsLastIndexTime ==
    [][\A p \in Procs :
          EndsAsNoOp(p) => lastIndexTime' = lastIndexTime]_vars

\* A no-op reindex has ended at second 2 with lastIndexTime still at second 1.
C22_Witness ==
    /\ proc["user"].kind = "reindex"
    /\ proc["user"].outcome = "noChanges"
    /\ proc["user"].outs = <<ChangeList(0)>>
    /\ proc["auto"].pc \in {"idle", "done"}
    /\ now = MaxNow
    /\ lastIndexTime = <<1>>

(***************************************************************************)
(* C23  As stated: the step that completes an index of chosen              *)
(* subdirectories with success sets lastIndexTime to the epoch second of   *)
(* that moment.                                                            *)
(***************************************************************************)
\* This step is the callback that ends p's index of subdirectories in success.
SubdirsSucceeds(p) ==
    /\ proc[p].pc = "indexsub"
    /\ proc'[p].pc = "done"
    /\ proc'[p].outcome = "succeeded"

C23_SubdirsRecordsTime ==
    [][\A p \in Procs :
          SubdirsSucceeds(p) =>
              /\ Len(lastIndexTime') = 1
              /\ IsSecondOf(lastIndexTime'[1], now')]_vars

(***************************************************************************)
(* C23, amended  The step that completes an index of chosen subdirectories *)
(* with success leaves lastIndexTime as it was: after it a watch trigger   *)
(* still chooses the full index when no full or incremental run has        *)
(* recorded a time.                                                        *)
(***************************************************************************)
C23_SubdirsKeepsLastIndexTime ==
    [][\A p \in Procs :
          /\ SubdirsSucceeds(p) => lastIndexTime' = lastIndexTime
          /\ (/\ proc["user"].kind = "subdirs"
              /\ proc["user"].outcome = "succeeded"
              /\ lastIndexTime = <<>>
              /\ proc'[p].origin = "watch"
              /\ proc'[p] # proc[p]
              /\ proc[p].pc \in {"idle", "done"}) => proc'[p].kind = "index"]_vars

\* The chosen subdirectories were indexed, no time is recorded, and the watch
\* trigger runs the full index.
C23_Witness ==
    /\ proc["user"].kind = "subdirs"
    /\ proc["user"].outcome = "succeeded"
    /\ proc["user"].cmds = <<"index -i">>
    /\ lastIndexTime = <<>>
    /\ proc["auto"].origin = "watch"
    /\ proc["auto"].kind = "index"
    /\ proc["auto"].pc = "index"

(***************************************************************************)
(* C24  In a run of the incremental reindex and in a run of the diff       *)
(* pipeline the commands of the items run one after the other in list      *)
(* order: the command of an item is started only when the command of every *)
(* earlier item has called back, so at most one is under way, and the log  *)
(* lines and progress reports of the items come in list order.             *)
(***************************************************************************)
\* The command the run issues for each item of its list.
PerItemCommand(rec) == IF rec.kind = "reindex" THEN "indexfile" ELSE "git show"

\* How many per-item commands the run has started, and how many have called
\* back: the callbacks after the one of the command that gave the list.
ItemsStarted(rec) ==
    Cardinality({k \in 1..Len(rec.cmds) : rec.cmds[k] = PerItemCommand(rec)})

ItemsCalledBack(rec) == IF Len(rec.outs) = 0 THEN 0 ELSE Len(rec.outs) - 1

\* The items whose indexfile command called back without error.
IndexedSoFar(rec) ==
    { k \in 1..ItemsCalledBack(rec) : ~rec.outs[k + 1].error }

C24_PerItemCommandsSequential ==
    \A p \in Procs :
        LET rec == proc[p]
            started == ItemsStarted(rec)
            calledBack == ItemsCalledBack(rec)
        IN  rec.kind \in {"reindex", "diffs"} =>
                /\ started \in {calledBack, calledBack + 1}
                /\ started <= Len(rec.data)
                /\ \A k \in 2..Len(rec.cmds) : rec.cmds[k] = PerItemCommand(rec)
                /\ (started = calledBack + 1) <=> rec.pc \in {"indexfile", "show"}
                /\ rec.pc \in {"indexfile", "show"} => rec.idx = started
                /\ (rec.kind = "reindex" /\ started > 0) =>
                      /\ IndexedSoFar(rec) \in {1..calledBack, 1..(calledBack - 1)}
                      /\ rec.acc = SubSeq(rec.data, 1, Cardinality(IndexedSoFar(rec)))
                      /\ rec.progress = [k \in 1..started |-> <<100, Len(rec.data)>>]
                /\ (rec.kind = "diffs" /\ started > 0) =>
                      /\ Len(rec.acc) = Cardinality(Retrieved(rec))
                      /\ \A i \in 1..Len(rec.acc) :
                            rec.acc[i].title = rec.data[NthRetrieved(rec, i)][1]

\* The second indexfile of a reindex and the second `git show` of a diff run
\* are under way, each after the callback of the first.
C24_Witness ==
    /\ proc["auto"].kind = "reindex"
    /\ proc["auto"].pc = "indexfile"
    /\ proc["auto"].cmds = <<"git diff", "indexfile", "indexfile">>
    /\ Len(proc["auto"].outs) = 2
    /\ proc["auto"].acc = <<proc["auto"].data[1]>>
    /\ proc["user"].kind = "diffs"
    /\ proc["user"].pc = "show"
    /\ proc["user"].cmds = <<"desc", "git show", "git show">>
    /\ Len(proc["user"].outs) = 2

(***************************************************************************)
(* C25  Triggers of the reindex are neither deduplicated nor serialized:   *)
(* while the full index or the reindex of one trigger is running, a second *)
(* trigger (a command, the activation timer, the git watcher) passes the   *)
(* gate and starts its own index command, so two index processes are under *)
(* way together, and each of them records lastIndexTime when it succeeds.  *)
(***************************************************************************)
\* The run of p has an index, indexfile or change-list command under way.
IndexRunning(p) ==
    /\ proc[p].kind \in {"index", "reindex"}
    /\ proc[p].pc \in {"index", "indexfile", "changes"}

\* No command of p is under way.
AtRest(p) == proc[p].pc \in {"idle", "done"}

C25_TriggersNotSerialized ==
    /\ (IndexRunning("auto") /\ AtRest("user") /\ cachedVersionCheck = "true") =>
          ENABLED (userCommand("user") /\ proc'["user"].pc = "index")
    /\ (IndexRunning("user") /\ AtRest("auto") /\ cachedVersionCheck = "true") =>
          /\ ENABLED (startIndexing("auto") /\ proc'["auto"].pc = "index")
          /\ ENABLED (handleGitChange("auto") /\ proc'["auto"].pc \in {"index", "changes"})
    /\ \A p \in Procs :
          (proc[p].kind = "index" /\ proc[p].pc = "index") =>
              ENABLED (index_Callback(p) /\ lastIndexTime' = <<EpochSeconds(now)>>)

\* Two index processes are under way: the user's command and the watcher's.
C25_Witness ==
    /\ proc["user"].kind = "index"
    /\ proc["user"].pc = "index"
    /\ proc["user"].cmds = <<"index">>
    /\ proc["auto"].kind = "index"
    /\ proc["auto"].origin = "watch"
    /\ proc["auto"].pc = "index"
    /\ proc["auto"].cmds = <<"index">>

(***************************************************************************)
(* C26  lastIndexTime is written only by a step of the full index or of    *)
(* the incremental reindex: the queries, the diff pipeline, the version    *)
(* gate, the index of chosen subdirectories, the clock and the invocation  *)
(* of any command leave it as it was.  cachedVersionCheck is written only  *)
(* by the callback of a probe of the version gate.                         *)
(***************************************************************************)
\* The command whose step this is, if the step is one of p.
Acts(p) == proc'[p] # proc[p]

C26_StateWrittenByOwnerOnly ==
    [][/\ lastIndexTime' # lastIndexTime =>
             \E p \in Procs :
                 /\ Acts(p)
                 /\ proc[p].kind \in {"index", "reindex"}
                 /\ proc[p].pc \in {"index", "indexfile"}
       /\ cachedVersionCheck' # cachedVersionCheck =>
             \E p \in Procs : Acts(p) /\ proc[p].pc = "probe"
       /\ \A p \in Procs :
             /\ (Acts(p) /\ proc[p].pc = "probe") => lastIndexTime' = lastIndexTime
             /\ (Acts(p) /\ proc[p].pc # "probe") =>
                   cachedVersionCheck' = cachedVersionCheck
             /\ (Acts(p) /\ proc'[p].kind \in {"files", "authors", "desc", "diffs", "subdirs"}) =>
                   lastIndexTime' = lastIndexTime]_vars

\* After a full index recorded second 1, the user's diff pipeline ran to its
\* bundle and both values are as the index and the gate left them.
C26_Witness ==
    /\ proc["auto"].pc = "idle"
    /\ proc["user"].kind = "diffs"
    /\ proc["user"].outcome = "bundled"
    /\ proc["user"].why = "cached"
    /\ lastIndexTime = <<1>>
    /\ cachedVersionCheck = "true"

(***************************************************************************)
(* C27  As stated: every run of generateDiffsForCursorChat that resolves   *)
(* after the describe step has reported exactly the increments 30, 30, 40, *)
(* in this order, apart from increments of zero.                           *)
(***************************************************************************)
\* The increments of a run that are not zero, in the order reported.
NonZeroIncrements(rec) == SelectSeq(rec.progress, LAMBDA inc : inc # 0)

\* The run of p ended with resolve(): no commits, no diffs, or the bundle.
ResolvedAfterDescribe(rec) ==
    /\ rec.kind = "diffs"
    /\ rec.pc = "done"
    /\ rec.outcome \in {"noCommits", "noDiffs", "bundled"}

C27_EveryResolvedRunReportsThree ==
    \A p \in Procs :
        ResolvedAfterDescribe(proc[p]) =>
            NonZeroIncrements(proc[p]) = <<30, 30, 40>>

(***************************************************************************)
(* C27, amended  A run that opens its bundle has reported 30, 30, 40; a    *)
(* run that resolves because no commit gave a diff has reported 30, 30     *)
(* only, and a run that resolves because the describe result is empty has  *)
(* reported no increment above zero.  The increments reported so far are   *)
(* always a prefix of 30, 30, 40, so their sum never exceeds 100.          *)
(***************************************************************************)
C27_ReportsByOutcome ==
    \A p \in Procs :
        LET rec == proc[p]
            incs == NonZeroIncrements(rec)
        IN  rec.kind = "diffs" =>
                /\ incs = SubSeq(<<30, 30, 40>>, 1, Len(incs))
                /\ Len(incs) <= 3
                /\ (rec.pc = "done" /\ rec.outcome = "bundled") => incs = <<30, 30, 40>>
                /\ (rec.pc = "done" /\ rec.outcome = "noDiffs") => incs = <<30, 30>>
                /\ (rec.pc = "done" /\ rec.outcome = "noCommits") => incs = <<>>
                /\ Len(incs) = 3 <=> (rec.pc = "done" /\ rec.outcome = "bundled")

\* Two commits were described, neither gave a diff, and the run resolved
\* having reported 0, 30, 30.
C27_Witness ==
    /\ proc["user"].kind = "diffs"
    /\ proc["user"].pc = "done"
    /\ proc["user"].outcome = "noDiffs"
    /\ Len(proc["user"].data) = 2
    /\ proc["user"].cmds = <<"desc", "git show", "git show">>
    /\ proc["user"].progress = <<0, 30, 30>>

(***************************************************************************)
(* C28  As stated: in every invocation of the external tool the value      *)
(* after `-t` is one of query, author, desc, index, indexfile; the file    *)
(* commands pass query and the author commands pass author.                *)
(***************************************************************************)
\* The commands of a run that invoke the tool, as the value after `-t`
\* (`index -i "<dirs>"` passes index); `git diff` and `git show` do not.
ToolModes(rec) ==
    LET tool == SelectSeq(rec.cmds, LAMBDA cmd : cmd \notin {"git diff", "git show"})
    IN  [k \in 1..Len(tool) |-> IF tool[k] = "index -i" THEN "index" ELSE tool[k]]

C28_ModeIsOneOfFive ==
    \A p \in Procs :
        LET modes == ToolModes(proc[p])
        IN  \A k \in 1..Len(modes) :
                /\ modes[k] \in {"query", "author", "desc", "index", "indexfile"}
                /\ proc[p].kind = "files" => modes[k] = "query"
                /\ proc[p].kind = "authors" => modes[k] = "author"

\* An author command has run the tool with `-t authors`.
C28_AuthorsPassedVerbatim ==
    /\ proc["user"].kind = "authors"
    /\ proc["user"].pc = "exec"
    /\ proc["user"].cmds = <<"authors">>

(***************************************************************************)
(* C29  getCopilotResponse makes at most 3 attempts; an attempt whose      *)
(* response has not arrived after 30 seconds fails; after failed attempt k *)
(* with k < 3 it waits 2 k seconds and then makes attempt k + 1; after the *)
(* third failed attempt it throws, with no wait and no further attempt; an *)
(* attempt that succeeds returns its response and nothing follows it.      *)
(***************************************************************************)
\* This step is the failure of the attempt under way.
AttemptFails ==
    /\ call'.log = Append(call.log, call'.log[Len(call'.log)])
    /\ call'.log[Len(call'.log)].attempt = call.attempt

C29_StateOfTheCall ==
    /\ call.attempt \in 1..3
    /\ Len(call.log) \in {call.attempt - 1, call.attempt}
    /\ \A k \in 1..Len(call.log) : call.log[k].attempt = k
    /\ \A k \in 1..Len(call.log) :
          call.log[k].why = "timeout" => call.log[k].elapsed = 30
    /\ Len(call.waits) = call.attempt - 1
    /\ \A k \in 1..Len(call.waits) : call.waits[k] = 2 * k
    /\ call.pc = "thrown" <=> Len(call.log) = 3
    /\ call.pc = "thrown" => (call.done /\ call.result = <<>> /\ Len(call.waits) = 2)
    /\ call.pc = "backoff" <=> (Len(call.log) = call.attempt /\ call.attempt < 3)
    /\ call.pc = "returned" =>
          /\ call.done
          /\ call.result = << <<"o", "k">> >>
          /\ Len(call.log) = call.attempt - 1
    /\ call.done <=> call.pc \in {"returned", "thrown"}

C29_AttemptsTimeoutBackoff ==
    [][/\ C29_StateOfTheCall'
       /\ (call.pc = "wait" /\ call.elapsed = 30) =>
             (AttemptFails /\ call'.log[Len(call'.log)].why = "timeout")
       /\ (call.pc = "wait" /\ call.elapsed < 30) =>
             (call'.pc \in {"wait", "close"} /\ call'.log = call.log)
       /\ (call.pc = "close" /\ call'.pc = "returned") =>
             (call'.result = <<call.response>> /\ call'.elapsed = call.elapsed)
       /\ call.pc \notin {"returned", "thrown"}]_vars

\* Two attempts timed out, the waits were 2 and 4 seconds, and the third
\* attempt returned the response.
C29_Witness ==
    /\ call.fn = "getCopilotResponse"
    /\ call.pc = "returned"
    /\ call.attempt = 3
    /\ Len(call.log) = 2
    /\ call.log[1].why = "timeout"
    /\ call.log[2].why = "timeout"
    /\ call.waits = <<2, 4>>
    /\ call.result = << <<"o", "k">> >>

(***************************************************************************)
(* C30  Outside getCopilotResponse nothing is retried: in one run the      *)
(* query, the describe call, the change-list query, the index command, the *)
(* indexfile call of each file and the `git show` of each commit start     *)
(* their command exactly once, whether it succeeds or fails.               *)
(***************************************************************************)
\* How many times the run has started the command cmd.
TimesStarted(rec, cmd) ==
    Cardinality({k \in 1..Len(rec.cmds) : rec.cmds[k] = cmd})

\* The run has a command under way.
CommandUnderWay(rec) ==
    rec.pc \in {"exec", "changes", "indexfile", "index", "indexsub", "describe", "show"}

C30_EachStepStartsItsCommandOnce ==
    \A p \in Procs :
        LET rec == proc[p]
        IN  /\ Len(rec.cmds) = Len(rec.outs) + (IF CommandUnderWay(rec) THEN 1 ELSE 0)
            /\ rec.kind \in {"files", "authors", "desc"} =>
                  rec.cmds \in {<<>>, <<internalCommandType(rec.kind)>>}
            /\ rec.kind = "index" => rec.cmds \in {<<>>, <<"index">>}
            /\ rec.kind = "subdirs" => rec.cmds \in {<<>>, <<"index -i">>}
            /\ rec.kind = "reindex" =>
                  /\ TimesStarted(rec, "git diff") <= 1
                  /\ TimesStarted(rec, "indexfile") <= Len(rec.data)
                  /\ Len(rec.cmds) = TimesStarted(rec, "git diff") + TimesStarted(rec, "indexfile")
                  /\ (rec.pc = "done" /\ rec.outcome = "succeeded") =>
                        TimesStarted(rec, "indexfile") = Len(rec.data)
                  /\ (rec.pc = "done" /\ rec.outcome = "failed" /\ Len(rec.outs) > 1) =>
                        /\ rec.outs[Len(rec.outs)].error
                        /\ \A k \in 2..(Len(rec.outs) - 1) : ~rec.outs[k].error
            /\ rec.kind = "diffs" =>
                  /\ TimesStarted(rec, "desc") <= 1
                  /\ TimesStarted(rec, "git show") <= Len(rec.data)
                  /\ Len(rec.cmds) = TimesStarted(rec, "desc") + TimesStarted(rec, "git show")
                  /\ (rec.pc = "done" /\ rec.outcome \in {"noDiffs", "bundled"}) =>
                        TimesStarted(rec, "git show") = Len(rec.data)

\* The first `git show` of a diff run over two commits failed and the first
\* indexfile of a reindex failed: two `git show` in all, one indexfile.
C30_Witness ==
    /\ proc["user"].kind = "diffs"
    /\ proc["user"].pc = "done"
    /\ Len(proc["user"].data) = 2
    /\ proc["user"].outs[2].error
    /\ proc["user"].cmds = <<"desc", "git show", "git show">>
    /\ proc["auto"].kind = "reindex"
    /\ proc["auto"].pc = "done"
    /\ proc["auto"].outcome = "failed"
    /\ Len(proc["auto"].data) = 2
    /\ proc["auto"].cmds = <<"git diff", "indexfile">>

(***************************************************************************)
(* C31  With lastIndexTime absent getChangedFilesSinceLastIndex gives the  *)
(* empty list without running `git diff`, and an incremental reindex       *)
(* requested then ends with no command at all: no change-list query, no    *)
(* indexfile and no index; it does not turn into a full index.             *)
(***************************************************************************)
\* In this step the reindex of p gets past the version gate.
ReindexPassesGate(p) ==
    /\ proc[p].pc \in {"idle", "done", "probe"}
    /\ proc'[p] # proc[p]
    /\ proc'[p].kind = "reindex"
    /\ proc'[p].gate = "true"

C31_NoTimestampNoCommand ==
    [][\A p \in Procs :
          /\ (ReindexPassesGate(p) /\ lastIndexTime = <<>>) =>
                /\ proc'[p].pc = "done"
                /\ proc'[p].outcome \in {"noChanges", "noWorkspace"}
                /\ proc'[p].cmds = <<>>
                /\ proc'[p].outs = <<>>
          /\ proc'[p].kind = "reindex" =>
                /\ \A k \in 1..Len(proc'[p].cmds) :
                      proc'[p].cmds[k] \in {"git diff", "indexfile"}
                /\ proc'[p].cmds # <<>> => lastIndexTime' # <<>>]_vars

\* A reindex command passed the gate with no timestamp and ended as a no-op
\* without a single command.
C31_Witness ==
    /\ proc["user"].kind = "reindex"
    /\ proc["user"].gate = "true"
    /\ proc["user"].pc = "done"
    /\ proc["user"].outcome = "noChanges"
    /\ proc["user"].cmds = <<>>
    /\ lastIndexTime = <<>>

(***************************************************************************)
(* C32  When the describe call of generateDiffsForCursorChat fails (the    *)
(* process errors, it prints to stderr only, or its output does not parse) *)
(* the run is rejected: no `git show` is started, no bundle is collected   *)
(* or opened, and the run does not resolve with a partial or empty bundle. *)
(***************************************************************************)
\* How the describe callback that received out must end the run, if it fails.
DescribeFailure(out) ==
    IF out.error THEN "execError"
    ELSE IF out.stderr # <<>> /\ out.stdout = <<>> THEN "stderrOnly"
    ELSE IF out.json = <<>> THEN "parseFailed"
    ELSE "none"

C32_DescribeFailureRejects ==
    \A p \in Procs :
        LET rec == proc[p]
        IN  (/\ rec.kind = "diffs"
             /\ rec.outs # <<>>
             /\ DescribeFailure(rec.outs[1]) # "none") =>
                /\ rec.pc = "done"
                /\ rec.outcome = DescribeFailure(rec.outs[1])
                /\ ~ResolvedAfterDescribe(rec)
                /\ rec.cmds = <<"desc">>
                /\ Len(rec.outs) = 1
                /\ rec.acc = <<>>
                /\ rec.progress = <<0>>

\* The describe call printed to stderr only and the run was rejected after
\* that one command.
C32_Witness ==
    /\ proc["user"].kind = "diffs"
    /\ proc["user"].pc = "done"
    /\ proc["user"].outs = <<Output(FALSE, <<>>, ErrText, <<>>)>>
    /\ proc["user"].outcome = "stderrOnly"
    /\ proc["user"].cmds = <<"desc">>

(***************************************************************************)
(* C33  As stated: when a full index completes with success the count of   *)
(* files indexed equals the number of occurrences of 'Indexing file:' in   *)
(* the whole stdout of the process, however the stream was cut into        *)
(* chunks, and every count reported is at least the one before.            *)
(***************************************************************************)
\* The occurrences of the marker in the text, counted position by position.
Occurrences(text) ==
    Cardinality({i \in 1..(Len(text) - 13) : SubSeq(text, i, i + 13) = INDEXING_FILE})

C33_CountIsOccurrencesInStdout ==
    (call.fn = "indexWorkspace") =>
        /\ \A k \in 1..(Len(call.reports) - 1) : call.reports[k] <= call.reports[k + 1]
        /\ call.done =>
              /\ call.result = <<Occurrences(call.args[1])>>
              /\ call.reports # <<>> =>
                    call.reports[Len(call.reports)] = Occurrences(call.args[1])

\* Two files were announced, a chunk ended inside the second announcement,
\* and the run completed with a count of one.
C33_SplitMarkerIsMissed ==
    /\ call.fn = "indexWorkspace"
    /\ call.done
    /\ Occurrences(call.args[1]) = 2
    /\ call.chunks = 2
    /\ call.result = <<1>>
    /\ call.reports = <<1>>

(***************************************************************************)
(* C34  As stated: when the stdout of a desc or describe call is JSON that *)
(* is not an array (null, a number, a string, an object), runCommand in    *)
(* desc mode and generateDiffsForCursorChat both end as parse-failed; no   *)
(* exception escapes and no item is presented.                             *)
(***************************************************************************)
\* The first callback of the run received JSON that is not an array.
GotJsonNotArray(rec) ==
    /\ rec.outs # <<>>
    /\ ~rec.outs[1].error
    /\ rec.outs[1].json \in {<<JsonNull>>, <<JsonNumber>>, <<JsonString>>, <<JsonObject>>}

C34_NotArrayIsParseFailed ==
    \A p \in Procs :
        LET rec == proc[p]
        IN  (rec.kind \in {"desc", "diffs"} /\ GotJsonNotArray(rec)) =>
                /\ rec.pc = "done"
                /\ rec.outcome = "parseFailed"
                /\ rec.items = <<>>
                /\ rec.acc = <<>>

\* The desc command received the number 5: the TypeError of parsed.sort
\* escaped the callback.
C34_SortOfNumberThrows ==
    /\ proc["user"].kind = "desc"
    /\ proc["user"].pc = "done"
    /\ proc["user"].outs = <<Output(FALSE, <<"5">>, <<>>, <<JsonNumber>>)>>
    /\ proc["user"].outcome = "uncaught"

\* The describe call of the diff pipeline received the number 5 and the run
\* ended as parse-failed.
C34_DescribeOfNumberIsParseFailed ==
    /\ proc["user"].kind = "diffs"
    /\ proc["user"].pc = "done"
    /\ proc["user"].outs = <<Output(FALSE, <<"5">>, <<>>, <<JsonNumber>>)>>
    /\ proc["user"].outcome = "parseFailed"

(***************************************************************************)
(* C35  lastIndexTime is always absent or one timestamp; once it is a      *)
(* timestamp it never becomes absent again and never gets smaller, also    *)
(* when two runs overlap and complete in either order.                     *)
(***************************************************************************)
IsTimestamp(v) == Len(v) = 1 /\ v[1] \in Nat /\ v[1] > 0

C35_LastIndexTimeOnlyGrows ==
    [][/\ lastIndexTime' = <<>> \/ IsTimestamp(lastIndexTime')
       /\ lastIndexTime # <<>> =>
             /\ lastIndexTime' # <<>>
             /\ lastIndexTime'[1] >= lastIndexTime[1]]_vars

\* Two full index runs were requested before the gate had an answer; the
\* watcher's has recorded second 1 and the user's is still under way at
\* second 2.
C35_Witness ==
    /\ proc["user"].kind = "index"
    /\ proc["user"].why = "ok"
    /\ proc["user"].pc = "index"
    /\ proc["auto"].kind = "index"
    /\ proc["auto"].why = "ok"
    /\ proc["auto"].pc = "done"
    /\ proc["auto"].outcome = "succeeded"
    /\ lastIndexTime = <<1>>
    /\ now = MaxNow

(***************************************************************************)
(* C36  As stated: once cachedVersionCheck is true or false it never       *)
(* changes, also when several commands call checkContextPilotVersion       *)
(* before the first probe has completed, and no second sequence of probes  *)
(* is ever started.                                                        *)
(***************************************************************************)
C36_CacheWrittenOnceOneProbeSequence ==
    [][/\ cachedVersionCheck # "null" => cachedVersionCheck' = cachedVersionCheck
       /\ ~ghost'.overlap
       /\ ~(proc'["user"].pc = "probe" /\ proc'["auto"].pc = "probe")]_vars

\* Two calls probed at the same time; one completed with true and the other
\* then replaced the cached true by false.
C36_CachedTrueReplacedByFalse ==
    /\ ghost.overlap
    /\ ghost.completedTrue
    /\ cachedVersionCheck = "false"
    /\ \E p \in Procs : proc[p].gate = "true" /\ proc[p].why = "ok"
    /\ \E p \in Procs : proc[p].gate = "false" /\ proc[p].why # "cached"

(***************************************************************************)
(* C37  As stated: when a full or incremental run records lastIndexTime =  *)
(* T, every change of the repository made at or before second T was made   *)
(* before the run started its index command, so no change made while a run *)
(* is under way is left out of the later change lists.                     *)
(***************************************************************************)
\* In this step the run of p completes and records its time.
RecordsTime(p) ==
    /\ proc[p].pc \in {"index", "indexfile"}
    /\ proc'[p].pc = "done"
    /\ proc'[p].outcome = "succeeded"
    /\ lastIndexTime' # <<>>

C37_ChangesUpToTPrecedeTheRun ==
    [][\A p \in Procs :
          RecordsTime(p) =>
              \A ch \in call.changes :
                  ch.at <= lastIndexTime'[1] => p \notin ch.during]_vars

\* A change was made while the watcher's full index was under way, and the
\* run then recorded a second that is not before the change.
C37_ChangeDuringRunIsCovered ==
    /\ call.fn = "repository"
    /\ proc["auto"].kind = "index"
    /\ proc["auto"].outcome = "succeeded"
    /\ Len(lastIndexTime) = 1
    /\ \E ch \in call.changes : "auto" \in ch.during /\ ch.at <= lastIndexTime[1]

(***************************************************************************)
(* C38  As stated: when the promise of executing contextpilot.             *)
(* indexWorkspace has resolved, the index process of that call has exited  *)
(* and, if it succeeded, lastIndexTime is set; a watch handler that awaited *)
(* the command and then handles the next git event takes the incremental   *)
(* path.                                                                   *)
(***************************************************************************)
C38_ResolvedMeansExited ==
    \A p \in Procs :
        (proc[p].kind = "index" /\ proc[p].gate = "true" /\ CommandResolved(proc[p])) =>
            /\ proc[p].pc = "done"
            /\ proc[p].outcome = "succeeded" => lastIndexTime # <<>>

\* The promise of the user's indexWorkspace has resolved with its process
\* still running and no timestamp; the git event that follows starts a second
\* full index.
C38_ResolvedWhileRunning ==
    /\ proc["user"].kind = "index"
    /\ CommandResolved(proc["user"])
    /\ proc["user"].pc = "index"
    /\ proc["user"].outs = <<>>
    /\ lastIndexTime = <<>>
    /\ proc["auto"].origin = "watch"
    /\ proc["auto"].kind = "index"
    /\ proc["auto"].why = "cached"
    /\ proc["auto"].pc = "index"

(***************************************************************************)
(* C39  As stated: after any sequence of activation, configuration changes *)
(* of autoIndexOnGitCommit and deactivation the watchers created and not   *)
(* disposed are those in gitWatchers: at most two are live, none while the *)
(* setting is off or after deactivate, and one git change event triggers   *)
(* at most one reindex for the path it is on.                              *)
(***************************************************************************)
C39_LiveWatchersAreGitWatchers ==
    (call.fn = "gitWatchers") =>
        /\ call.live = Range(call.gitWatchers)
        /\ Cardinality(call.live) <= 2
        /\ (~call.setting /\ call.phase = "active") => call.live = {}
        /\ call.phase = "deactivated" => call.live = {}
        /\ \A path \in WatchedPaths : call.triggered[path] <= 1

\* The setting was written again with the value it had: four watchers are
\* live, two of them no longer in gitWatchers, and one event on HEAD has
\* triggered two reindex runs.
C39_WatchersLeaked ==
    /\ call.fn = "gitWatchers"
    /\ call.phase = "active"
    /\ call.setting
    /\ Cardinality(call.live) = 4
    /\ Len(call.gitWatchers) = 2
    /\ call.triggered["HEAD"] = 2

(***************************************************************************)
(* C40                                                                     *)
(***************************************************************************)
RunsInFlight == {r \in 1..MaxRuns : call.runs[r] # "none"}

InProgressTexts == {InProgressText(kind) : kind \in IndexKinds}

\* C40: while any full or incremental index run is in flight the status bar
\* shows an in-progress text, so the idle text comes back only when every
\* in-flight run has finished, also when the reset timer of an earlier run
\* fires during a later run.
C40_InProgressWhileInFlight ==
    (call.fn = "statusBarItem" /\ RunsInFlight # {}) =>
        call.text \in InProgressTexts

\* A run is in flight, the timer of an earlier run has fired, and the item shows
\* the idle text.
C40_IdleWhileInFlight ==
    /\ call.fn = "statusBarItem"
    /\ RunsInFlight # {}
    /\ call.timers = {}
    /\ call.clock >= ResetSeconds
    /\ call.text = IdleText

====
